---- MODULE Spec2Model ----
(***************************************************************************)
(* Incremental JSON scanner (json::scanner), table-driven shift/reduce     *)
(* parser (json::parser) and the chunk-feeding driver of usage_example.cc  *)
(* and of the unit tests, as a state machine.                              *)
(*                                                                         *)
(* Characters are one-character strings, texts are sequences of them.      *)
(* Table indices are the C++ indices; the tuples below are 1-based, so     *)
(* every lookup adds one.                                                  *)
(***************************************************************************)
EXTENDS Integers, Sequences, FiniteSets, TLC

(***************************************************************************)
(* scanner::token_t                                                        *)
(***************************************************************************)
T_ERROR == -1
L_BRACE == 9
R_BRACE == 10
L_BRACKET == 11
R_BRACKET == 12
COMMA == 13
T_STRING == 14
COLON == 15
T_OTHER == 16
EOS == 17
T_PENDING == 18

(***************************************************************************)
(* scanner::symbols_t: the character categories labelling the DFA arcs     *)
(***************************************************************************)
A == 0
E == 1
F == 2
L == 3
N == 4
R == 5
S == 6
T == 7
U == 8
PUNCT == 9
DIGIT == 10
DOT == 11
SIGN == 12
BACKSLASH == 13
QUOTE == 14
NOSPECIAL == 15
ANY == 16
BLANK == 17
ZERO == 18

(***************************************************************************)
(* scanner::st[28][19].  Row 21 is written in the source with the          *)
(* initializers  ..., -1, -1. -1}  : the last one is the expression        *)
(* -1. - 1 = -2 and the 19th element is missing, hence zero.               *)
(***************************************************************************)
st ==
  << <<-1, -1, 16, -1,  7, -1, -1, 11, -1, 15,  2, 22, 27, -1,  1, -1, -1,  0, 21>>,
     <<-1, -1, -1, -1, -1, -1, -1, -1, -1, -1, -1, -1, -1,  5,  4,  3, -1, -1, -1>>,
     <<-1, 24, -1, -1, -1, -1, -1, -1, -1, -1,  2, 23, -1, -1,  1, -1, -1, -1,  2>>,
     <<-1, -1, -1, -1, -1, -1, -1, -1, -1, -1, -1, -1, -1,  5,  4,  3, -1, -1, -1>>,
     <<-1, -1, -1, -1, -1, -1, -1, -1, -1, -1, -1, -1, -1, -1, -1, -1, -1, -1, -1>>,
     <<-1, -1, -1, -1, -1, -1, -1, -1, -1, -1, -1, -1, -1, -1, -1, -1,  6, -1, -1>>,
     <<-1, -1, -1, -1, -1, -1, -1, -1, -1, -1, -1, -1, -1,  5,  4,  3, -1, -1, -1>>,
     <<-1, -1, -1, -1, -1, -1, -1, -1,  8, -1, -1, -1, -1, -1, -1, -1, -1, -1, -1>>,
     <<-1, -1, -1,  9, -1, -1, -1, -1, -1, -1, -1, -1, -1, -1, -1, -1, -1, -1, -1>>,
     <<-1, -1, -1, 10, -1, -1, -1, -1, -1, -1, -1, -1, -1, -1, -1, -1, -1, -1, -1>>,
     <<-1, -1, -1, -1, -1, -1, -1, -1, -1, -1, -1, -1, -1, -1, -1, -1, -1, -1, -1>>,
     <<-1, -1, -1, -1, -1, 12, -1, -1, -1, -1, -1, -1, -1, -1, -1, -1, -1, -1, -1>>,
     <<-1, -1, -1, -1, -1, -1, -1, -1, 13, -1, -1, -1, -1, -1, -1, -1, -1, -1, -1>>,
     <<-1, 14, -1, -1, -1, -1, -1, -1, -1, -1, -1, -1, -1, -1, -1, -1, -1, -1, -1>>,
     <<-1, -1, -1, -1, -1, -1, -1, -1, -1, -1, -1, -1, -1, -1, -1, -1, -1, -1, -1>>,
     <<-1, -1, -1, -1, -1, -1, -1, -1, -1, -1, -1, -1, -1, -1, -1, -1, -1, -1, -1>>,
     <<17, -1, -1, -1, -1, -1, -1, -1, -1, -1, -1, -1, -1, -1, -1, -1, -1, -1, -1>>,
     <<-1, -1, -1, 18, -1, -1, -1, -1, -1, -1, -1, -1, -1, -1, -1, -1, -1, -1, -1>>,
     <<-1, -1, -1, -1, -1, -1, 19, -1, -1, -1, -1, -1, -1, -1, -1, -1, -1, -1, -1>>,
     <<-1, 20, -1, -1, -1, -1, -1, -1, -1, -1, -1, -1, -1, -1, -1, -1, -1, -1, -1>>,
     <<-1, -1, -1, -1, -1, -1, -1, -1, -1, -1, -1, -1, -1, -1, -1, -1, -1, -1, -1>>,
     <<-1, -1, -1, -1, -1, -1, -1, -1, -1, -1, -1, 23, -1, -1, -1, -1, -1, -2,  0>>,
     <<-1, -1, -1, -1, -1, -1, -1, -1, -1, -1, 23, -1, -1, -1, -1, -1, -1, -1, 23>>,
     <<-1, 24, -1, -1, -1, -1, -1, -1, -1, -1, 23, -1, -1, -1, -1, -1, -1, -1, 23>>,
     <<-1, -1, -1, -1, -1, -1, -1, -1, -1, -1, 26, -1, 25, -1, -1, -1, -1, -1, -1>>,
     <<-1, -1, -1, -1, -1, -1, -1, -1, -1, -1, 26, -1, -1, -1, -1, -1, -1, -1, -1>>,
     <<-1, -1, -1, -1, -1, -1, -1, -1, -1, -1, 26, -1, -1, -1, -1, -1, -1, -1, 26>>,
     <<-1, -1, -1, -1, -1, -1, -1, -1, -1, -1,  2, 22, -1, -1, -1, -1, -1, -1, 21>> >>

(***************************************************************************)
(* scanner::final[28]: the terminal accepted in each DFA state, 0 if none  *)
(***************************************************************************)
final ==
  <<0, 0, T_OTHER, 0, T_STRING, 0, 0, 0, 0, 0, T_OTHER, 0, 0, 0, T_OTHER, PUNCT, 0, 0,
    0, 0, T_OTHER, T_OTHER, 0, T_OTHER, 0, 0, T_OTHER, 0>>

(***************************************************************************)
(* parser::pt[38][18], split into the two fields of pt_cell_t.  Columns    *)
(* 0..8 are nonterminals, 9..17 the terminals L_BRACE..EOS.                *)
(***************************************************************************)
SHIFT == -2

pt_what ==
  << <<-1, -1, -1, -1, -1, -1, -1, -1, -1, -2, -1, -2, -1, -1, -1, -1, -1, -1>>,
     <<-1, -2, -2, -1, -2, -1, -1, -1, -1, -1,  1, -1, -1, -1, -2, -1, -1, -1>>,
     <<-1, -1, -1, -1, -1, -1, -1, -1, -1, -1, -1, -1, -1, -1, -1, -2, -1, -1>>,
     <<-2, -1, -1, -1, -1, -2, -1, -1, -1, -2, -1, -2, -1, -1, -2, -1, -2, -1>>,
     <<-1, -1, -1, -1, -1, -1, -1, -1, -1, -1,  5, -1, -1,  5, -1, -1, -1, -1>>,
     <<-1, -1, -1, -1, -1, -1, -1, -1, -1, -1,  5, -1, -1,  5, -1, -1, -1, -1>>,
     <<-2, -1, -1, -1, -1, -2, -2, -2, -1, -2, -1, -2,  6, -1, -2, -1, -2, -1>>,
     <<-1, -1, -1, -1, -1, -1, -1, -1, -1, -1, -1, -1,  5,  5, -1, -1, -1, -1>>,
     <<-1, -1, -1, -1, -1, -1, -1, -1, -1, -1, -1, -1,  5,  5, -1, -1, -1, -1>>,
     <<-2, -1, -1, -1, -1, -2, -2, -2, -1, -2, -1, -2,  6, -1, -2, -1, -2, -1>>,
     <<-1, -2, -2, -1, -2, -1, -1, -1, -1, -1,  1, -1, -1, -1, -2, -1, -1, -1>>,
     <<-1, -2, -2, -1, -2, -1, -1, -1, -1, -1,  1, -1, -1, -1, -2, -1, -1, -1>>,
     <<-1, -1, -1, -1, -1, -1, -1, -1, -1, -1, -2, -1, -1, -1, -1, -1, -1, -1>>,
     <<-1, -1, -1, -1, -1, -1, -1, -1, -1, -1, -1, -1, -1, -1, -1, -1, -1,  0>>,
     <<-1, -1, -1, -1, -1, -1, -1, -1, -1, -1,  1, -1, -1, -1, -1, -1, -1, -1>>,
     <<-1, -1, -1, -2, -1, -1, -1, -1, -1, -1,  3, -1, -1, -2, -1, -1, -1, -1>>,
     <<-1, -1, -2, -1, -2, -1, -1, -1, -1, -1, -1, -1, -1, -1, -2, -1, -1, -1>>,
     <<-1, -1, -1, -1, -1, -1, -1, -1, -1, -1,  2, -1, -1, -1, -1, -1, -1, -1>>,
     <<-1, -1, -1, -1, -1, -1, -1, -1, -1, -1,  3, -1, -1, -1, -1, -1, -1, -1>>,
     <<-2, -1, -1, -1, -1, -2, -2, -2, -1, -2, -1, -2,  6, -1, -2, -1, -2, -1>>,
     <<-1, -1, -1, -1, -1, -1, -1, -1, -1, -1,  5, -1, -1,  5, -1, -1, -1, -1>>,
     <<-1, -1, -1, -1, -1, -1, -1, -1, -1, -1,  4, -1, -1,  4, -1, -1, -1, -1>>,
     <<-1, -1, -1, -1, -1, -1, -1, -1, -1, -1, -1, -1, -2, -1, -1, -1, -1, -1>>,
     <<-1, -1, -1, -1, -1, -1, -1, -1, -1, -1,  0, -1, -1,  0, -1, -1, -1, -1>>,
     <<-1, -1, -1, -1, -1, -1, -1, -1, -1, -1, -1, -1,  6, -1, -1, -1, -1, -1>>,
     <<-1, -1, -1, -1, -1, -1, -1, -1, -1, -1, -1, -1, -2, -1, -1, -1, -1, -1>>,
     <<-1, -1, -1, -1, -1, -1, -1, -1, -1, -1, -1, -1,  5,  5, -1, -1, -1, -1>>,
     <<-1, -1, -1, -1, -1, -1, -1, -1, -2, -1, -1, -1,  8, -2, -1, -1, -1, -1>>,
     <<-1, -1, -1, -1, -1, -1, -1, -1, -1, -1, -1, -1,  7, -1, -1, -1, -1, -1>>,
     <<-2, -1, -1, -1, -1, -2, -1, -2, -1, -2, -1, -2, -1, -1, -2, -1, -2, -1>>,
     <<-1, -1, -1, -1, -1, -1, -1, -1, -1, -1, -1, -1,  8, -1, -1, -1, -1, -1>>,
     <<-1, -1, -1, -1, -1, -1, -1, -1, -1, -1, -2, -1, -1, -1, -1, -1, -1, -1>>,
     <<-1, -1, -1, -1, -1, -1, -1, -1, -1, -1,  0, -1, -1,  0, -1, -1, -1, -1>>,
     <<-1, -1, -1, -1, -1, -1, -1, -1, -1, -1, -2, -1, -1, -1, -1, -1, -1, -1>>,
     <<-1, -1, -1, -1, -1, -1, -1, -1, -1, -1, -1, -1,  0,  0, -1, -1, -1, -1>>,
     <<-1, -1, -1, -1, -1, -1, -1, -1, -1, -1, -1, -1, -2, -1, -1, -1, -1, -1>>,
     <<-1, -1, -1, -1, -1, -1, -1, -1, -1, -1, -1, -1,  0,  0, -1, -1, -1, -1>>,
     <<-1, -1, -1, -1, -1, -1, -1, -1, -1, -1, -1, -1, -1, -1, -1, -1, -1,  0>> >>

pt_where ==
  << << 0,  0,  0,  0,  0,  0,  0,  0,  0,  1,  0, 19,  0,  0,  0,  0,  0,  0>>,
     << 0, 12, 14,  0, 15,  0,  0,  0,  0,  0,  0,  0,  0,  0,  2,  0,  0,  0>>,
     << 0,  0,  0,  0,  0,  0,  0,  0,  0,  0,  0,  0,  0,  0,  0,  3,  0,  0>>,
     <<20,  0,  0,  0,  0, 21,  0,  0,  0, 10,  0,  6,  0,  0,  5,  0,  4,  0>>,
     << 0,  0,  0,  0,  0,  0,  0,  0,  0,  0,  1,  0,  0,  1,  0,  0,  0,  0>>,
     << 0,  0,  0,  0,  0,  0,  0,  0,  0,  0,  1,  0,  0,  1,  0,  0,  0,  0>>,
     <<26,  0,  0,  0,  0, 27, 22, 24,  0, 11,  0,  9,  0,  0,  8,  0,  7,  0>>,
     << 0,  0,  0,  0,  0,  0,  0,  0,  0,  0,  0,  0,  1,  1,  0,  0,  0,  0>>,
     << 0,  0,  0,  0,  0,  0,  0,  0,  0,  0,  0,  0,  1,  1,  0,  0,  0,  0>>,
     <<26,  0,  0,  0,  0, 27, 35, 24,  0, 11,  0,  9,  0,  0,  8,  0,  7,  0>>,
     << 0, 31, 14,  0, 15,  0,  0,  0,  0,  0,  0,  0,  0,  0,  2,  0,  0,  0>>,
     << 0, 33, 14,  0, 15,  0,  0,  0,  0,  0,  0,  0,  0,  0,  2,  0,  0,  0>>,
     << 0,  0,  0,  0,  0,  0,  0,  0,  0,  0, 13,  0,  0,  0,  0,  0,  0,  0>>,
     << 0,  0,  0,  0,  0,  0,  0,  0,  0,  0,  0,  0,  0,  0,  0,  0,  0,  3>>,
     << 0,  0,  0,  0,  0,  0,  0,  0,  0,  0,  1,  0,  0,  0,  0,  0,  0,  0>>,
     << 0,  0,  0, 17,  0,  0,  0,  0,  0,  0,  0,  0,  0, 16,  0,  0,  0,  0>>,
     << 0,  0, 18,  0, 15,  0,  0,  0,  0,  0,  0,  0,  0,  0,  2,  0,  0,  0>>,
     << 0,  0,  0,  0,  0,  0,  0,  0,  0,  0,  2,  0,  0,  0,  0,  0,  0,  0>>,
     << 0,  0,  0,  0,  0,  0,  0,  0,  0,  0,  2,  0,  0,  0,  0,  0,  0,  0>>,
     <<26,  0,  0,  0,  0, 27, 25, 24,  0, 11,  0,  9,  0,  0,  8,  0,  7,  0>>,
     << 0,  0,  0,  0,  0,  0,  0,  0,  0,  0,  1,  0,  0,  1,  0,  0,  0,  0>>,
     << 0,  0,  0,  0,  0,  0,  0,  0,  0,  0,  3,  0,  0,  3,  0,  0,  0,  0>>,
     << 0,  0,  0,  0,  0,  0,  0,  0,  0,  0,  0,  0, 23,  0,  0,  0,  0,  0>>,
     << 0,  0,  0,  0,  0,  0,  0,  0,  0,  0,  3,  0,  0,  3,  0,  0,  0,  0>>,
     << 0,  0,  0,  0,  0,  0,  0,  0,  0,  0,  0,  0,  1,  0,  0,  0,  0,  0>>,
     << 0,  0,  0,  0,  0,  0,  0,  0,  0,  0,  0,  0, 37,  0,  0,  0,  0,  0>>,
     << 0,  0,  0,  0,  0,  0,  0,  0,  0,  0,  0,  0,  1,  1,  0,  0,  0,  0>>,
     << 0,  0,  0,  0,  0,  0,  0,  0, 28,  0,  0,  0,  0, 29,  0,  0,  0,  0>>,
     << 0,  0,  0,  0,  0,  0,  0,  0,  0,  0,  0,  0,  2,  0,  0,  0,  0,  0>>,
     <<26,  0,  0,  0,  0, 27,  0, 30,  0, 11,  0,  9,  0,  0,  8,  0,  7,  0>>,
     << 0,  0,  0,  0,  0,  0,  0,  0,  0,  0,  0,  0,  2,  0,  0,  0,  0,  0>>,
     << 0,  0,  0,  0,  0,  0,  0,  0,  0,  0, 32,  0,  0,  0,  0,  0,  0,  0>>,
     << 0,  0,  0,  0,  0,  0,  0,  0,  0,  0,  3,  0,  0,  3,  0,  0,  0,  0>>,
     << 0,  0,  0,  0,  0,  0,  0,  0,  0,  0, 34,  0,  0,  0,  0,  0,  0,  0>>,
     << 0,  0,  0,  0,  0,  0,  0,  0,  0,  0,  0,  0,  3,  3,  0,  0,  0,  0>>,
     << 0,  0,  0,  0,  0,  0,  0,  0,  0,  0,  0,  0, 36,  0,  0,  0,  0,  0>>,
     << 0,  0,  0,  0,  0,  0,  0,  0,  0,  0,  0,  0,  3,  3,  0,  0,  0,  0>>,
     << 0,  0,  0,  0,  0,  0,  0,  0,  0,  0,  0,  0,  0,  0,  0,  0,  0,  3>> >>

(***************************************************************************)
(* Out-of-range table reads.  st[21][BLANK] is -2, so the scanner can      *)
(* index final[] and st[] with -2: undefined behaviour.  What such a read  *)
(* yields is fixed by the build; the model draws it from Builds:           *)
(*   "crash"  the read (or the walk that follows it) faults, the process   *)
(*            dies inside get();                                           *)
(*   "dead"   final[-2] reads 0 and st[-2][..] reads -1;                   *)
(*   "accept" final[-2] reads OTHER and st[-2][..] reads -1.               *)
(***************************************************************************)
Builds == {"crash", "dead", "accept"}

InRange(crt) == crt \in 0..27

FinalAt(crt, bld) ==
  IF InRange(crt) THEN final[crt + 1]
  ELSE IF bld = "accept" THEN T_OTHER ELSE 0

StAt(crt, type, bld) ==
  IF InRange(crt) THEN st[crt + 1][type + 1] ELSE -1

(***************************************************************************)
(* scanner::translate: character -> category, by context; the context     *)
(* switches on quote and backslash.                                        *)
(***************************************************************************)
Blanks == {"\n", "\r", " ", "\t", "\f"}

Digits19 == {"1", "2", "3", "4", "5", "6", "7", "8", "9"}

translate_dflt(c) ==
  CASE c = "0" -> ZERO
    [] c \in Digits19 -> DIGIT
    [] c = "." -> DOT
    [] c \in {"E", "e"} -> E
    [] c \in {"+", "-"} -> SIGN
    [] c \in {"{", "}", "[", "]", ",", ":"} -> PUNCT
    [] c \in Blanks -> BLANK
    [] c \in {"A", "a"} -> A
    [] c \in {"F", "f"} -> F
    [] c \in {"L", "l"} -> L
    [] c \in {"N", "n"} -> N
    [] c \in {"R", "r"} -> R
    [] c \in {"S", "s"} -> S
    [] c \in {"T", "t"} -> T
    [] c \in {"U", "u"} -> U
    [] OTHER -> ANY

translate(c, context) ==
  CASE context = "STRING_CONTEXT" ->
         IF c = "\\" THEN [type |-> BACKSLASH, context |-> "BACKSLASH_CONTEXT"]
         ELSE IF c = "\"" THEN [type |-> QUOTE, context |-> "DFLT_CONTEXT"]
         ELSE [type |-> NOSPECIAL, context |-> "STRING_CONTEXT"]
    [] context = "BACKSLASH_CONTEXT" ->
         [type |-> ANY, context |-> "STRING_CONTEXT"]
    [] OTHER ->
         IF c = "\"" THEN [type |-> QUOTE, context |-> "STRING_CONTEXT"]
         ELSE [type |-> translate_dflt(c), context |-> "DFLT_CONTEXT"]

(***************************************************************************)
(* scanner::punctuation; "throw" stands for std::logic_error("Punctuation")*)
(***************************************************************************)
punctuation(c) ==
  CASE c = "{" -> L_BRACE
    [] c = "}" -> R_BRACE
    [] c = "[" -> L_BRACKET
    [] c = "]" -> R_BRACKET
    [] c = ":" -> COLON
    [] c = "," -> COMMA
    [] OTHER -> T_ERROR

punctuation_throws(c) == c \notin {"{", "}", "[", "]", ":", ","}

(***************************************************************************)
(* scanner::unicode2utf8 (json_scanner.cc).  The bytes are written into a  *)
(* zeroed 4-byte word and returned as a C string, so the result ends at    *)
(* the first zero byte.  static_cast<char> keeps the low 8 bits.           *)
(***************************************************************************)
BitAnd8(x, m) == 
  LET RECURSIVE and(_, _, _)
      and(a, b, k) == IF k = 0 THEN 0
                      ELSE (IF a % 2 = 1 /\ b % 2 = 1 THEN 1 ELSE 0) + 2 * and(a \div 2, b \div 2, k - 1)
  IN and(x, m, 16)

BitOr(x, m) == x + m - BitAnd8(x, m)

ToChar(x) == x % 256

utf8_bytes(unicode) ==
  IF unicode < 128 THEN <<ToChar(BitAnd8(unicode, 127))>>
  ELSE IF unicode < 2048
    THEN <<ToChar(BitOr(192, unicode \div 64)), ToChar(BitOr(128, BitAnd8(unicode, 63)))>>
    ELSE <<ToChar(BitOr(224, unicode \div 4096)),
           ToChar(BitOr(128, BitAnd8(unicode \div 64, 1023))),
           ToChar(BitOr(128, BitAnd8(unicode, 63)))>>

RECURSIVE c_str(_)
c_str(bytes) == IF bytes = <<>> \/ Head(bytes) = 0 THEN <<>> ELSE <<Head(bytes)>> \o c_str(Tail(bytes))

unicode2utf8(unicode) == c_str(utf8_bytes(unicode))

(***************************************************************************)
(* Bytes of the payload as model characters: the ASCII characters the      *)
(* model uses are themselves, every other byte is named by its value.      *)
(***************************************************************************)
HexDigitChars == <<"0", "1", "2", "3", "4", "5", "6", "7", "8", "9", "a", "b", "c", "d", "e", "f">>

ByteChar(b) ==
  CASE b = 34 -> "\""
    [] b = 92 -> "\\"
    [] b = 32 -> " "
    [] b \in 48..57 -> HexDigitChars[b - 47]
    [] b \in 97..102 -> HexDigitChars[b - 86]
    [] b = 67 -> "C"
    [] OTHER -> "x" \o HexDigitChars[(b \div 16) + 1] \o HexDigitChars[(b % 16) + 1]

HexValue(c) ==
  CASE c \in {"0", "1", "2", "3", "4", "5", "6", "7", "8", "9"} ->
         (CHOOSE i \in 1..10 : HexDigitChars[i] = c) - 1
    [] c \in {"a", "A"} -> 10
    [] c \in {"b", "B"} -> 11
    [] c \in {"c", "C"} -> 12
    [] c \in {"d", "D"} -> 13
    [] c \in {"e", "E"} -> 14
    [] c \in {"f", "F"} -> 15
    [] OTHER -> -1

(***************************************************************************)
(* The extraction  s >> std::hex >> unicode  on a 4-character substring:   *)
(* leading white space is skipped, then a sign and a prefix 0x or 0X are   *)
(* accepted, then hexadecimal digits are read up to the first other        *)
(* character.  eof is set only if the end of the substring was reached;    *)
(* the value is 0 when no digit was read, and a negative value wraps       *)
(* around 2^16.  postprocess tests eof only, not the success of the        *)
(* extraction.                                                             *)
(***************************************************************************)
RECURSIVE hex_skipws(_, _)
hex_skipws(cs, i) == IF i <= Len(cs) /\ cs[i] \in Blanks THEN hex_skipws(cs, i + 1) ELSE i

hex_sign(cs, i) == IF i <= Len(cs) /\ cs[i] \in {"+", "-"} THEN i + 1 ELSE i

hex_prefix(cs, i) ==
  IF i + 1 <= Len(cs) /\ cs[i] = "0" /\ cs[i + 1] \in {"x", "X"} THEN i + 2 ELSE i

RECURSIVE hex_digits(_, _, _)
hex_digits(cs, i, acc) ==
  IF i <= Len(cs) /\ HexValue(cs[i]) >= 0
    THEN hex_digits(cs, i + 1, acc * 16 + HexValue(cs[i]))
    ELSE [pos |-> i, value |-> acc]

hex_read(cs, start, negative) ==
  [eof |-> hex_digits(cs, hex_prefix(cs, start), 0).pos > Len(cs),
   value |-> IF negative
               THEN (65536 - hex_digits(cs, hex_prefix(cs, start), 0).value) % 65536
               ELSE hex_digits(cs, hex_prefix(cs, start), 0).value]

hex_signed(cs, i) == hex_read(cs, hex_sign(cs, i), i <= Len(cs) /\ cs[i] = "-")

hex4(cs) == hex_signed(cs, hex_skipws(cs, 1))

(***************************************************************************)
(* scanner::postprocess(data, len): the characters data[1 .. len-1]        *)
(* (C++ indices) with the escape sequences replaced.                       *)
(***************************************************************************)
At(data, i) == IF i + 1 \in 1..Len(data) THEN data[i + 1] ELSE ""

RECURSIVE bytes_to_chars(_)
bytes_to_chars(bs) == IF bs = <<>> THEN <<>> ELSE <<ByteChar(Head(bs))>> \o bytes_to_chars(Tail(bs))

RECURSIVE postprocess_from(_, _, _)
postprocess_from(data, len, i) ==
  IF i >= len THEN <<>>
  ELSE LET c == At(data, i) IN
    IF c # "\\" THEN <<c>> \o postprocess_from(data, len, i + 1)
    ELSE LET e == At(data, i + 1) IN
      CASE e = "t" -> <<"\t">> \o postprocess_from(data, len, i + 2)
        [] e = "n" -> <<"\n">> \o postprocess_from(data, len, i + 2)
        [] e = "r" -> <<"\r">> \o postprocess_from(data, len, i + 2)
        [] e = "f" -> <<"\f">> \o postprocess_from(data, len, i + 2)
        [] e = "b" -> <<"\\b">> \o postprocess_from(data, len, i + 2)
        [] e = "u" ->
             LET h == IF (i + 1) + 4 < len
                      THEN hex4(SubSeq(data, i + 3, i + 6))
                      ELSE [eof |-> FALSE, value |-> 0]
             IN IF h.eof
                THEN bytes_to_chars(unicode2utf8(h.value)) \o postprocess_from(data, len, i + 6)
                ELSE <<"u">> \o postprocess_from(data, len, i + 2)
        [] OTHER -> <<e>> \o postprocess_from(data, len, i + 2)

postprocess(data, len) == postprocess_from(data, len, 1)

(***************************************************************************)
(* The scanner object.  buf holds the unread part of the pushback          *)
(* stringstream; the input stream str belongs to the driver and is passed  *)
(* in and out.                                                             *)
(***************************************************************************)
scanner_init ==
  [crt |-> 0, last_final |-> -1, context |-> "DFLT_CONTEXT", to_unget |-> 0,
   data |-> <<>>, buf |-> <<>>]

reset(sc) == [sc EXCEPT !.crt = 0, !.context = "DFLT_CONTEXT", !.data = <<>>]

(***************************************************************************)
(* scanner::unget: the last to_unget characters of data go in front of     *)
(* what is still unread in buf.                                            *)
(***************************************************************************)
unget_behind(sc) ==
  [sc EXCEPT !.buf = sc.buf \o SubSeq(sc.data, Len(sc.data) - sc.to_unget + 1, Len(sc.data)),
             !.to_unget = 0]

unget(sc) ==
  [sc EXCEPT !.buf = SubSeq(sc.data, Len(sc.data) - sc.to_unget + 1, Len(sc.data)) \o sc.buf,
             !.to_unget = 0]

(***************************************************************************)
(* scanner::get(Char&).  buf is a default-constructed stringstream, so     *)
(* buf >> c skips white space; the parser's constructor clears skipws on   *)
(* str only.  eof is TRUE when both reads failed (buf.eof() && str.eof()). *)
(***************************************************************************)
RECURSIVE skipws(_)
skipws(s) == IF s # <<>> /\ Head(s) \in Blanks THEN skipws(Tail(s)) ELSE s

read_char(b, str) ==
  IF b # <<>> THEN [eof |-> FALSE, c |-> Head(b), buf |-> Tail(b), str |-> str]
  ELSE IF str # <<>> THEN [eof |-> FALSE, c |-> Head(str), buf |-> <<>>, str |-> Tail(str)]
  ELSE [eof |-> TRUE, c |-> "", buf |-> <<>>, str |-> <<>>]

get_char(buf, str) == read_char(skipws(buf), str)

(***************************************************************************)
(* What get(token) hands back: the token, its text, the scanner and the    *)
(* stream after the call; exc is "none", or the exception that left the    *)
(* call ("Punctuation", "out_of_range"), or "crash"; oob tells whether a   *)
(* table was indexed out of range.                                         *)
(***************************************************************************)
Got(tok, text, sc, str, exc, oob) ==
  [tok |-> tok, text |-> text, sc |-> sc, str |-> str, exc |-> exc, oob |-> oob]

(***************************************************************************)
(* scanner::success.  success_return is its last two statements, with the  *)
(* terminal, the token text and the scanner after unget() and reset().     *)
(***************************************************************************)
success_return(terminal, token, sc, str, oob) ==
  IF terminal # PUNCT THEN Got(terminal, token, sc, str, "none", oob)
  ELSE IF token = <<>> THEN Got(T_ERROR, token, sc, str, "out_of_range", oob)
  ELSE IF punctuation_throws(token[1]) THEN Got(T_ERROR, token, sc, str, "Punctuation", oob)
  ELSE Got(punctuation(token[1]), token, sc, str, "none", oob)

success_token(terminal, sc, str, oob) ==
  success_return(terminal,
                 IF terminal = T_STRING
                   THEN postprocess(sc.data, Len(sc.data) - sc.to_unget - 1)
                   ELSE SubSeq(sc.data, 1, Len(sc.data) - sc.to_unget),
                 reset(IF sc.to_unget > 0 THEN unget([sc EXCEPT !.last_final = -1])
                       ELSE [sc EXCEPT !.last_final = -1]),
                 str, oob)

success(sc, str, bld, oob) ==
  IF ~InRange(sc.last_final) /\ bld = "crash"
    THEN Got(T_ERROR, <<>>, sc, str, "crash", TRUE)
    ELSE success_token(FinalAt(sc.last_final, bld), sc, str, oob \/ ~InRange(sc.last_final))

(***************************************************************************)
(* The character just read is classified and, unless BLANK, appended to    *)
(* data (lines 500-504 and 522-526).                                       *)
(***************************************************************************)
push_back(sc, r, t) ==
  [type |-> t.type,
   sc |-> [sc EXCEPT !.buf = r.buf, !.context = t.context,
                     !.data = IF t.type # BLANK THEN Append(@, r.c) ELSE @,
                     !.to_unget = IF t.type # BLANK THEN @ + 1 ELSE @]]

take(sc, r) == push_back(sc, r, translate(r.c, sc.context))

(***************************************************************************)
(* The do-while loop of scanner::get(token).  get_loop is entered with the *)
(* category of the character read last; get_arc takes the arc to crt;      *)
(* get_next reads the next character.                                      *)
(***************************************************************************)
RECURSIVE get_loop(_, _, _, _, _)

get_next_restarting(sc, bld, oob, r) ==
  IF r.eof
    THEN Got(T_PENDING, <<>>, reset([sc EXCEPT !.buf = r.buf, !.to_unget = 0]), r.str, "none", oob)
    ELSE get_loop(take(sc, r).sc, r.str, take(sc, r).type, bld, oob)

get_next_eager(sc, bld, oob, r) ==
  IF r.eof
    THEN IF sc.last_final # -1 /\ sc.to_unget = 0
           THEN success([sc EXCEPT !.buf = r.buf], r.str, bld, oob)
           ELSE Got(T_PENDING, <<>>, [sc EXCEPT !.buf = r.buf], r.str, "none", oob)
  ELSE get_loop(take(sc, r).sc, r.str, take(sc, r).type, bld, oob)

get_next(sc, bld, oob, r) ==
  IF r.eof THEN Got(T_PENDING, <<>>, [sc EXCEPT !.buf = r.buf], r.str, "none", oob)
  ELSE get_loop(take(sc, r).sc, r.str, take(sc, r).type, bld, oob)

get_final(sc, str, bld, oob, fin) ==
  get_next(IF fin # 0 THEN [sc EXCEPT !.last_final = sc.crt, !.to_unget = 0] ELSE sc,
           bld, oob, get_char(sc.buf, str))

get_arc_waiting(sc, str, bld, oob, crt) ==
  IF crt = -1
    THEN IF sc.last_final # -1
           THEN success([sc EXCEPT !.crt = crt], str, bld, oob)
           ELSE Got(T_PENDING, <<>>, sc, str, "none", oob)
  ELSE IF ~InRange(crt) /\ bld = "crash"
    THEN Got(T_ERROR, <<>>, [sc EXCEPT !.crt = crt], str, "crash", TRUE)
  ELSE get_final([sc EXCEPT !.crt = crt], str, bld, oob \/ ~InRange(crt), FinalAt(crt, bld))

get_arc(sc, str, bld, oob, crt) ==
  IF crt = -1
    THEN IF sc.last_final # -1
           THEN success([sc EXCEPT !.crt = crt], str, bld, oob)
           ELSE Got(T_ERROR, <<>>, reset(sc), str, "none", oob)
  ELSE IF ~InRange(crt) /\ bld = "crash"
    THEN Got(T_ERROR, <<>>, [sc EXCEPT !.crt = crt], str, "crash", TRUE)
  ELSE get_final([sc EXCEPT !.crt = crt], str, bld, oob \/ ~InRange(crt), FinalAt(crt, bld))

get_loop(sc, str, type, bld, oob) ==
  IF ~InRange(sc.crt) /\ bld = "crash"
    THEN Got(T_ERROR, <<>>, sc, str, "crash", TRUE)
    ELSE get_arc(sc, str, bld, oob \/ ~InRange(sc.crt), StAt(sc.crt, type, bld))

(***************************************************************************)
(* scanner::get(token)                                                     *)
(***************************************************************************)
get_first_dflt(sc, bld, r) ==
  IF r.eof
    THEN IF sc.last_final # -1 THEN success([sc EXCEPT !.buf = r.buf], r.str, bld, FALSE)
         ELSE IF sc.to_unget > 0
           THEN Got(T_ERROR, <<>>, reset([sc EXCEPT !.buf = r.buf]), r.str, "none", FALSE)
         ELSE Got(EOS, <<>>, [sc EXCEPT !.buf = r.buf], r.str, "none", FALSE)
    ELSE get_loop(take([sc EXCEPT !.context = "DFLT_CONTEXT"], r).sc, r.str,
                  take([sc EXCEPT !.context = "DFLT_CONTEXT"], r).type, bld, FALSE)

get_first_lenient(sc, bld, r) ==
  IF r.eof
    THEN IF sc.last_final # -1 THEN success([sc EXCEPT !.buf = r.buf], r.str, bld, FALSE)
         ELSE Got(EOS, <<>>, [sc EXCEPT !.buf = r.buf], r.str, "none", FALSE)
    ELSE get_loop(take(sc, r).sc, r.str, take(sc, r).type, bld, FALSE)

get_first_waiting(sc, bld, r) ==
  IF r.eof
    THEN IF sc.last_final # -1 THEN success([sc EXCEPT !.buf = r.buf], r.str, bld, FALSE)
         ELSE IF sc.to_unget > 0
           THEN Got(T_ERROR, <<>>, reset([sc EXCEPT !.buf = r.buf]), r.str, "none", FALSE)
         ELSE Got(T_PENDING, <<>>, [sc EXCEPT !.buf = r.buf], r.str, "none", FALSE)
    ELSE get_loop(take(sc, r).sc, r.str, take(sc, r).type, bld, FALSE)

get_first(sc, bld, r) ==
  IF r.eof
    THEN IF sc.last_final # -1 THEN success([sc EXCEPT !.buf = r.buf], r.str, bld, FALSE)
         ELSE IF sc.to_unget > 0
           THEN Got(T_ERROR, <<>>, reset([sc EXCEPT !.buf = r.buf]), r.str, "none", FALSE)
         ELSE Got(EOS, <<>>, [sc EXCEPT !.buf = r.buf], r.str, "none", FALSE)
    ELSE get_loop(take(sc, r).sc, r.str, take(sc, r).type, bld, FALSE)

get(sc, str, bld) == get_first(sc, bld, get_char(sc.buf, str))

(***************************************************************************)
(* The parser object: crt, the scanner, the stack st (top at the end) and  *)
(* the hooks that are set.                                                 *)
(***************************************************************************)
HookNames ==
  {"obj_start", "key", "obj_data", "obj_end", "array_start", "array_data", "array_end"}

parser_init(hooks) ==
  [crt |-> 0, scanner |-> scanner_init, st |-> <<>>, hooks |-> hooks]

Event(kind, text, term) == [kind |-> kind, text |-> text, term |-> term]

(***************************************************************************)
(* parser::semantics: the callback invoked on entering `state`, as the     *)
(* events it appends to what the callbacks have seen.                      *)
(***************************************************************************)
semantics_untyped(hooks, state, token, term) ==
  LET fire(h, ev) == IF h \in hooks THEN <<ev>> ELSE <<>> IN
  CASE state \in {1, 10, 11} -> fire("obj_start", Event("obj_start", <<>>, 0))
    [] state = 2 -> fire("key", Event("key", token, 0))
    [] state \in {13, 32, 34} -> fire("obj_end", Event("obj_end", <<>>, 0))
    [] state \in {4, 5} -> fire("obj_data", Event("obj_primitive", token, 0))
    [] state \in {6, 9, 19} -> fire("array_start", Event("array_start", <<>>, 0))
    [] state \in {23, 36, 37} -> fire("array_end", Event("array_end", <<>>, 0))
    [] state \in {7, 8} -> fire("array_data", Event("array_primitive", token, 0))
    [] OTHER -> <<>>

semantics_unguarded(hooks, state, token, term) ==
  CASE state \in {1, 10, 11} -> <<Event("obj_start", <<>>, 0)>>
    [] state = 2 -> <<Event("key", token, 0)>>
    [] state \in {13, 32, 34} -> <<Event("obj_end", <<>>, 0)>>
    [] state \in {4, 5} -> <<Event("obj_primitive", token, term)>>
    [] state \in {6, 9, 19} -> <<Event("array_start", <<>>, 0)>>
    [] state \in {23, 36, 37} -> <<Event("array_end", <<>>, 0)>>
    [] state \in {7, 8} -> <<Event("array_primitive", token, term)>>
    [] OTHER -> <<>>

semantics_missing_end(hooks, state, token, term) ==
  LET fire(h, ev) == IF h \in hooks THEN <<ev>> ELSE <<>> IN
  CASE state \in {1, 10, 11} -> fire("obj_start", Event("obj_start", <<>>, 0))
    [] state = 2 -> fire("key", Event("key", token, 0))
    [] state = 13 -> fire("obj_end", Event("obj_end", <<>>, 0))
    [] state \in {4, 5} -> fire("obj_data", Event("obj_primitive", token, term))
    [] state \in {6, 9, 19} -> fire("array_start", Event("array_start", <<>>, 0))
    [] state \in {23, 36, 37} -> fire("array_end", Event("array_end", <<>>, 0))
    [] state \in {7, 8} -> fire("array_data", Event("array_primitive", token, term))
    [] OTHER -> <<>>

semantics(hooks, state, token, term) ==
  LET fire(h, ev) == IF h \in hooks THEN <<ev>> ELSE <<>> IN
  CASE state \in {1, 10, 11} -> fire("obj_start", Event("obj_start", <<>>, 0))
    [] state = 2 -> fire("key", Event("key", token, 0))
    [] state \in {13, 32, 34} -> fire("obj_end", Event("obj_end", <<>>, 0))
    [] state \in {4, 5} -> fire("obj_data", Event("obj_primitive", token, term))
    [] state \in {6, 9, 19} -> fire("array_start", Event("array_start", <<>>, 0))
    [] state \in {23, 36, 37} -> fire("array_end", Event("array_end", <<>>, 0))
    [] state \in {7, 8} -> fire("array_data", Event("array_primitive", token, term))
    [] OTHER -> <<>>

(***************************************************************************)
(* What parse() hands back: result is "OK", "PENDING" or "ERROR", or names *)
(* the std::logic_error that left the call ("throw:..."), or is "CRASH".   *)
(* toks is the log of what scanner::get returned to the parser, PENDING    *)
(* left out.                                                               *)
(***************************************************************************)
Parsed(result, p, str, events, toks, oob) ==
  [result |-> result, p |-> p, str |-> str, events |-> events, toks |-> toks, oob |-> oob]

Abnormal(exc) == IF exc = "crash" THEN "CRASH" ELSE "throw:" \o exc

Logged(toks, g) ==
  IF g.exc # "none" \/ g.tok = T_PENDING THEN toks
  ELSE Append(toks, [kind |-> g.tok, text |-> g.text])

(***************************************************************************)
(* The do-while loop of parser::parse, entered with the lookahead term     *)
(* and its text.  parse_cell switches on the cell pt[crt][term];           *)
(* parse_shifted is the SHIFT case after the push, with the next token g;  *)
(* parse_reduce is the default case after the pops.                        *)
(***************************************************************************)
RECURSIVE parse_loop(_, _, _, _, _, _, _, _)

parse_shifted_eager(p, events, toks, bld, oob, g) ==
  IF g.exc # "none"
    THEN Parsed(Abnormal(g.exc), [p EXCEPT !.scanner = g.sc], g.str, events, toks, oob \/ g.oob)
  ELSE IF g.tok = T_ERROR
    THEN Parsed("ERROR", [p EXCEPT !.scanner = g.sc], g.str, events, Logged(toks, g), oob \/ g.oob)
  ELSE IF g.tok = T_PENDING
    THEN Parsed("PENDING", [p EXCEPT !.scanner = g.sc], g.str, events, Logged(toks, g), oob \/ g.oob)
  ELSE parse_loop([p EXCEPT !.scanner = g.sc], g.str, events, Logged(toks, g),
                  g.tok, g.text, bld, oob \/ g.oob)

parse_shifted_yielding(p, events, toks, bld, oob, g) ==
  IF g.exc # "none"
    THEN Parsed(Abnormal(g.exc), [p EXCEPT !.scanner = g.sc], g.str, events, toks, oob \/ g.oob)
  ELSE IF g.tok = T_ERROR
    THEN Parsed("ERROR", [p EXCEPT !.scanner = g.sc], g.str, events, Logged(toks, g), oob \/ g.oob)
  ELSE IF g.tok = T_PENDING \/ g.tok = EOS \/ g.tok = COMMA
    THEN Parsed("PENDING", [p EXCEPT !.scanner = g.sc], g.str, events, Logged(toks, g), oob \/ g.oob)
  ELSE parse_loop([p EXCEPT !.scanner = g.sc], g.str, events, Logged(toks, g),
                  g.tok, g.text, bld, oob \/ g.oob)

parse_shifted(p, events, toks, bld, oob, g) ==
  IF g.exc # "none"
    THEN Parsed(Abnormal(g.exc), [p EXCEPT !.scanner = g.sc], g.str, events, toks, oob \/ g.oob)
  ELSE IF g.tok = T_ERROR
    THEN Parsed("ERROR", [p EXCEPT !.scanner = g.sc], g.str, events, Logged(toks, g), oob \/ g.oob)
  ELSE IF g.tok = T_PENDING \/ g.tok = EOS
    THEN Parsed("PENDING", [p EXCEPT !.scanner = g.sc], g.str, events, Logged(toks, g), oob \/ g.oob)
  ELSE parse_loop([p EXCEPT !.scanner = g.sc], g.str, events, Logged(toks, g),
                  g.tok, g.text, bld, oob \/ g.oob)

parse_reduce(p, str, events, toks, term, token, bld, oob, non_term, popped) ==
  IF popped = <<>>
    THEN IF non_term # 0 \/ term # EOS
           THEN Parsed("throw:Empty stack", [p EXCEPT !.st = popped], str, events, toks, oob)
           ELSE Parsed("OK", [p EXCEPT !.st = popped], str, events, toks, oob)
    ELSE IF pt_where[popped[Len(popped)] + 1][non_term + 1] = -1
      THEN Parsed("throw:Invalid arc", [p EXCEPT !.st = Append(popped, non_term), !.crt = -1],
                  str, events, toks, oob)
    ELSE parse_loop([p EXCEPT !.st = popped \o <<non_term, pt_where[popped[Len(popped)] + 1][non_term + 1]>>,
                              !.crt = pt_where[popped[Len(popped)] + 1][non_term + 1]],
                    str, events, toks, term, token, bld, oob)

parse_cell_eos_pending(p, str, events, toks, term, token, bld, oob, what, where) ==
  CASE what = -1 -> Parsed(IF term = EOS THEN "PENDING" ELSE "ERROR", p, str, events, toks, oob)
    [] what = SHIFT ->
         parse_shifted([p EXCEPT !.st = @ \o <<term, where>>, !.crt = where],
                       events \o semantics(p.hooks, where, token, term),
                       toks, bld, oob, get(p.scanner, str, bld))
    [] OTHER ->
         IF Len(p.st) < where * 2
           THEN Parsed("throw:Stack underflow", p, str, events, toks, oob)
           ELSE parse_reduce(p, str, events, toks, term, token, bld, oob, what,
                             SubSeq(p.st, 1, Len(p.st) - 2 * where))

parse_cell_deferred(p, str, events, toks, term, token, bld, oob, what, where) ==
  CASE what = -1 -> Parsed(IF term = EOS THEN "ERROR" ELSE "PENDING", p, str, events, toks, oob)
    [] what = SHIFT ->
         parse_shifted([p EXCEPT !.st = @ \o <<term, where>>, !.crt = where],
                       events \o semantics(p.hooks, where, token, term),
                       toks, bld, oob, get(p.scanner, str, bld))
    [] OTHER ->
         IF Len(p.st) < where * 2
           THEN Parsed("throw:Stack underflow", p, str, events, toks, oob)
           ELSE parse_reduce(p, str, events, toks, term, token, bld, oob, what,
                             SubSeq(p.st, 1, Len(p.st) - 2 * where))

parse_cell_batching(p, str, events, toks, term, token, bld, oob, what, where) ==
  CASE what = -1 -> Parsed("ERROR", p, str, events, toks, oob)
    [] what = SHIFT ->
         parse_shifted([p EXCEPT !.st = @ \o <<term, where>>, !.crt = where],
                       IF get(p.scanner, str, bld).tok \in {T_PENDING, EOS} THEN events
                       ELSE events \o semantics(p.hooks, where, token, term),
                       toks, bld, oob, get(p.scanner, str, bld))
    [] OTHER ->
         IF Len(p.st) < where * 2
           THEN Parsed("throw:Stack underflow", p, str, events, toks, oob)
           ELSE parse_reduce(p, str, events, toks, term, token, bld, oob, what,
                             SubSeq(p.st, 1, Len(p.st) - 2 * where))

parse_cell_single(p, str, events, toks, term, token, bld, oob, what, where) ==
  CASE what = -1 -> Parsed("ERROR", p, str, events, toks, oob)
    [] what = SHIFT ->
         parse_shifted([p EXCEPT !.st = Append(@, where), !.crt = where],
                       events \o semantics(p.hooks, where, token, term),
                       toks, bld, oob, get(p.scanner, str, bld))
    [] OTHER ->
         IF Len(p.st) < where * 2
           THEN Parsed("throw:Stack underflow", p, str, events, toks, oob)
           ELSE parse_reduce(p, str, events, toks, term, token, bld, oob, what,
                             SubSeq(p.st, 1, Len(p.st) - 2 * where))

parse_cell_short_pop(p, str, events, toks, term, token, bld, oob, what, where) ==
  CASE what = -1 -> Parsed("ERROR", p, str, events, toks, oob)
    [] what = SHIFT ->
         parse_shifted([p EXCEPT !.st = @ \o <<term, where>>, !.crt = where],
                       events \o semantics(p.hooks, where, token, term),
                       toks, bld, oob, get(p.scanner, str, bld))
    [] OTHER ->
         IF Len(p.st) < where * 2
           THEN Parsed("throw:Stack underflow", p, str, events, toks, oob)
           ELSE parse_reduce(p, str, events, toks, term, token, bld, oob, what,
                             SubSeq(p.st, 1, Len(p.st) - where))

parse_cell(p, str, events, toks, term, token, bld, oob, what, where) ==
  CASE what = -1 -> Parsed("ERROR", p, str, events, toks, oob)
    [] what = SHIFT ->
         parse_shifted([p EXCEPT !.st = @ \o <<term, where>>, !.crt = where],
                       events \o semantics(p.hooks, where, token, term),
                       toks, bld, oob, get(p.scanner, str, bld))
    [] OTHER ->
         IF Len(p.st) < where * 2
           THEN Parsed("throw:Stack underflow", p, str, events, toks, oob)
           ELSE parse_reduce(p, str, events, toks, term, token, bld, oob, what,
                             SubSeq(p.st, 1, Len(p.st) - 2 * where))

parse_loop_bare_key(p, str, events, toks, term, token, bld, oob) ==
  parse_cell(p, str, events, toks, term, token, bld, oob,
             pt_what[p.crt + 1][(IF p.crt = 1 /\ term = T_OTHER THEN T_STRING ELSE term) + 1],
             pt_where[p.crt + 1][(IF p.crt = 1 /\ term = T_OTHER THEN T_STRING ELSE term) + 1])

parse_loop_comma_member(p, str, events, toks, term, token, bld, oob) ==
  parse_cell(p, str, events, toks, term, token, bld, oob,
             pt_what[p.crt + 1][(IF p.crt = 2 /\ term = COMMA THEN COLON ELSE term) + 1],
             pt_where[p.crt + 1][(IF p.crt = 2 /\ term = COMMA THEN COLON ELSE term) + 1])

parse_loop(p, str, events, toks, term, token, bld, oob) ==
  parse_cell(p, str, events, toks, term, token, bld, oob,
             pt_what[p.crt + 1][term + 1], pt_where[p.crt + 1][term + 1])

(***************************************************************************)
(* parser::parse                                                           *)
(***************************************************************************)
parse_first(p, events, toks, bld, g) ==
  IF g.exc # "none"
    THEN Parsed(Abnormal(g.exc), [p EXCEPT !.scanner = g.sc], g.str, events, toks, g.oob)
  ELSE IF g.tok = T_ERROR
    THEN Parsed("ERROR", [p EXCEPT !.scanner = g.sc], g.str, events, Logged(toks, g), g.oob)
  ELSE IF g.tok = T_PENDING
    THEN Parsed("PENDING", [p EXCEPT !.scanner = g.sc], g.str, events, toks, g.oob)
  ELSE parse_loop([p EXCEPT !.scanner = g.sc], g.str, events, Logged(toks, g),
                  g.tok, g.text, bld, g.oob)

parse(p, str, events, toks, bld) == parse_first(p, events, toks, bld, get(p.scanner, str, bld))

(***************************************************************************)
(* The driver (usage_example.cc main, and the unit tests): it points the   *)
(* stream at the next chunk, clears the stream's flags and calls parse();  *)
(* an empty chunk is the closure signal.  A run ends with the first        *)
(* result that is not PENDING.                                             *)
(*                                                                         *)
(* The driver's input is a concatenation of pieces (lexemes, blanks and    *)
(* unfinished lexemes); a chunk may end anywhere inside a piece, and the   *)
(* unsent remainder of that piece (rest) opens the next chunk.  The first  *)
(* piece selects the vocabulary of the document: an object written         *)
(* compactly, an object written with a blank after each lexeme (the form   *)
(* of the unit tests' documents), or an array.  split tells whether a      *)
(* chunk ended inside a piece.                                             *)
(***************************************************************************)
Pieces ==
  << <<"{">>, <<"}">>, <<"[">>, <<"]">>, <<",">>, <<":">>, <<" ">>,
     <<"\"", "a", "\"">>, <<"1">>, <<"0">>, <<"t", "r">>, <<"\"", "a">>,
     <<"{", " ">>, <<"\"", "a", "\"", " ">>, <<",", " ">>, <<":", " ">>, <<"1", " ">> >>

ObjectVocabulary == {1, 2, 5, 6, 7, 8, 9}
SpacedVocabulary == {2, 7, 13, 14, 15, 16, 17}
ArrayVocabulary == {3, 4, 5, 7, 8, 9, 10, 11, 12}
OtherVocabulary == {2, 4, 7}

Vocabulary(first) ==
  CASE first = 1 -> ObjectVocabulary
    [] first = 13 -> SpacedVocabulary
    [] first = 3 -> ArrayVocabulary
    [] OTHER -> OtherVocabulary

InVocabulary(all) == \A i \in 2..Len(all) : all[i] \in Vocabulary(all[1])

MaxPieces == 5
MaxChunkPieces == 1
MaxEmptyFeeds == 3

VARIABLES p, str, events, toks, result, text, rest, pieces, split, nempty, build

vars == <<p, str, events, toks, result, text, rest, pieces, split, nempty, build>>

Init ==
  /\ p = parser_init(HookNames)
  /\ str = <<>>
  /\ events = <<>>
  /\ toks = <<>>
  /\ result = "NONE"
  /\ text = <<>>
  /\ rest = <<>>
  /\ pieces = <<>>
  /\ split = FALSE
  /\ nempty = 0
  /\ build = "unknown"

RECURSIVE Flatten(_)
Flatten(ps) == IF ps = <<>> THEN <<>> ELSE Pieces[Head(ps)] \o Flatten(Tail(ps))

PieceSeqs(n) == UNION {[1..k -> 1..Len(Pieces)] : k \in 0..n}

(***************************************************************************)
(* One pass of the driver's loop with `chunk`: pubsetbuf replaces what the *)
(* stream held, clear() drops its flags, then parse() runs.  The build's   *)
(* answer to an out-of-range read is drawn when the first such read        *)
(* happens and kept.                                                       *)
(***************************************************************************)
Call(chunk) ==
  \E bld \in (IF build = "unknown" THEN Builds ELSE {build}) :
    \E r \in {parse(p, chunk, events, toks, bld)} :
      /\ p' = r.p
      /\ str' = r.str
      /\ events' = r.events
      /\ toks' = r.toks
      /\ result' = r.result
      /\ build' = IF r.oob THEN bld ELSE build

Running == result \in {"NONE", "PENDING"}

(***************************************************************************)
(* usage_example.cc lines 63-76: the next non-empty chunk                  *)
(***************************************************************************)
Send(avail, from) ==
  \E k \in from..Len(avail) :
    /\ Call(SubSeq(avail, 1, k))
    /\ text' = text \o SubSeq(avail, 1, k)
    /\ rest' = SubSeq(avail, k + 1, Len(avail))
    /\ split' = (split \/ k < Len(avail))

Feed ==
  /\ Running
  /\ nempty = 0
  /\ \E ps \in PieceSeqs(MaxChunkPieces) :
       /\ Len(pieces) + Len(ps) <= MaxPieces
       /\ InVocabulary(pieces \o ps)
       /\ ps # <<>> \/ rest # <<>>
       /\ Send(rest \o Flatten(ps),
               Len(rest) + Len(Flatten(ps)) + 1
                 - (IF ps = <<>> THEN Len(rest) ELSE Len(Pieces[ps[Len(ps)]])))
       /\ pieces' = pieces \o ps
  /\ UNCHANGED nempty

(***************************************************************************)
(* usage_example.cc lines 100-104: the closure signal, an empty chunk      *)
(***************************************************************************)
Close ==
  /\ Running
  /\ result = "PENDING"
  /\ rest = <<>>
  /\ nempty < MaxEmptyFeeds
  /\ Call(<<>>)
  /\ nempty' = nempty + 1
  /\ UNCHANGED <<text, rest, pieces, split>>

(***************************************************************************)
(* The same driver fed `input` as one chunk and then n closure signals,    *)
(* stopping at the first result that is not PENDING; oob tells whether any *)
(* of these calls read a table out of range.  RefRun is that run on the    *)
(* text fed so far, under the build of this run.  A build only shows at an *)
(* out-of-range read, so when this run has met none ("unknown") the        *)
(* reference is computed under one build and must have met none either.    *)
(***************************************************************************)
RECURSIVE Drain(_, _, _)

Again(r, q) == [q EXCEPT !.oob = r.oob \/ q.oob]

Drain(r, n, bld) ==
  IF n = 0 \/ r.result # "PENDING" THEN r
  ELSE Drain(Again(r, parse(r.p, <<>>, r.events, r.toks, bld)), n - 1, bld)

OneChunk(input, n, bld) ==
  Drain(parse(parser_init(HookNames), input, <<>>, <<>>, bld), n, bld)

RefRun(n) == OneChunk(text, n, IF build = "unknown" THEN "crash" ELSE build)

SameBuild(ref) == build = "unknown" => ~ref.oob

Next == Feed \/ Close

Spec == Init /\ [][Next]_vars

(***************************************************************************)
(* The DOM of json_tree.hh.  The nodes live in heap (a node's index is its *)
(* address, 0 is the null pointer) and st is the context stack of the      *)
(* callbacks, top at the end; the root node is heap[1].  name is the       *)
(* string of a string_node or the key of an obj_node, num the double of a  *)
(* number_node, flag the constant of a bool_node, value what a root_node   *)
(* or an obj_node wraps, v the elements of an array_node or the members of *)
(* an obj_list_node.  fault records that a callback dereferenced a null    *)
(* pointer or read the top of an empty stack.                              *)
(***************************************************************************)
Number(m, e, known) == [m |-> m, e |-> e, known |-> known]

Node(type) ==
  [type |-> type, name |-> <<>>, num |-> Number(0, 0, TRUE), flag |-> FALSE,
   value |-> 0, v |-> <<>>]

string_node(n) == [Node("string") EXCEPT !.name = n]

number_node(no) == [Node("number") EXCEPT !.num = no]

bool_node(f) == [Node("bool") EXCEPT !.flag = f]

obj_node(n) == [Node("obj") EXCEPT !.name = n]

tree_init == [heap |-> <<Node("root")>>, st |-> <<1>>, fault |-> FALSE]

Faulted(t) == [t EXCEPT !.fault = TRUE]

top(t) == t.st[Len(t.st)]

pop(t) == [t EXCEPT !.st = SubSeq(@, 1, Len(@) - 1)]

push(t, id) == [t EXCEPT !.st = Append(@, id)]

(***************************************************************************)
(* coll_node::add of a node pointer, on the node at address n: root_node   *)
(* and obj_node set value_, array_node appends.                            *)
(***************************************************************************)
add(heap, n, id) ==
  IF heap[n].type = "array" THEN [heap EXCEPT ![n].v = Append(@, id)]
  ELSE [heap EXCEPT ![n].value = id]

(***************************************************************************)
(* strcasecmp(word, data) = 0 for the words false, true, null.             *)
(***************************************************************************)
ToLower(c) ==
  CASE c = "A" -> "a" [] c = "E" -> "e" [] c = "F" -> "f" [] c = "L" -> "l"
    [] c = "N" -> "n" [] c = "R" -> "r" [] c = "S" -> "s" [] c = "T" -> "t"
    [] c = "U" -> "u" [] OTHER -> c

strcasecmp(word, data) ==
  IF Len(data) = Len(word) /\ \A i \in 1..Len(word) : ToLower(data[i]) = word[i]
    THEN 0 ELSE 1

(***************************************************************************)
(* The doubles of number_node, for the numerals the inputs use: unsigned   *)
(* decimals without exponent.  A number is m * 10^e with m not a multiple  *)
(* of 10 (0 is 0 * 10^0); known is FALSE for a numeral of another form,    *)
(* whose value is not computed here.  strtod reads the digits and the      *)
(* fraction; operator<< prints a double with six significant digits, in    *)
(* fixed notation when the decimal exponent of the first digit is in       *)
(* -4..5 and in scientific notation otherwise, without trailing zeros.     *)
(***************************************************************************)
DecimalDigits == <<"0", "1", "2", "3", "4", "5", "6", "7", "8", "9">>

DigitValue(c) == (CHOOSE i \in 1..10 : DecimalDigits[i] = c) - 1

IsDigit(c) == \E i \in 1..10 : DecimalDigits[i] = c

RECURSIVE Pow10(_)
Pow10(n) == IF n = 0 THEN 1 ELSE 10 * Pow10(n - 1)

RECURSIVE Normal(_, _)
Normal(m, e) ==
  IF m = 0 THEN Number(0, 0, TRUE)
  ELSE IF m % 10 = 0 THEN Normal(m \div 10, e + 1)
  ELSE Number(m, e, TRUE)

RECURSIVE ReadDigits(_, _, _, _)
ReadDigits(data, i, m, e) ==
  IF i > Len(data) THEN Normal(m, e)
  ELSE ReadDigits(data, i + 1, m * 10 + DigitValue(data[i]), e)

DotAt(data) ==
  IF \E i \in 1..Len(data) : data[i] = "." THEN CHOOSE i \in 1..Len(data) : data[i] = "."
  ELSE Len(data) + 1

WithoutDot(data) == SubSeq(data, 1, DotAt(data) - 1) \o SubSeq(data, DotAt(data) + 1, Len(data))

strtod(data) ==
  IF data # <<>> /\ WithoutDot(data) # <<>> /\ \A i \in 1..Len(WithoutDot(data)) : IsDigit(WithoutDot(data)[i])
    THEN ReadDigits(WithoutDot(data), 1, 0, 0 - (Len(data) - DotAt(data)) * (IF DotAt(data) > Len(data) THEN 0 ELSE 1))
    ELSE Number(0, 0, FALSE)

RECURSIVE DigitsOf(_)
DigitsOf(m) ==
  IF m < 10 THEN <<DecimalDigits[m + 1]>>
  ELSE Append(DigitsOf(m \div 10), DecimalDigits[(m % 10) + 1])

RECURSIVE Zeros(_)
Zeros(n) == IF n <= 0 THEN <<>> ELSE <<"0">> \o Zeros(n - 1)

SixDigits(num) ==
  IF Len(DigitsOf(num.m)) <= 6 THEN num
  ELSE Normal((num.m + 5 * Pow10(Len(DigitsOf(num.m)) - 7)) \div Pow10(Len(DigitsOf(num.m)) - 6),
              num.e + Len(DigitsOf(num.m)) - 6)

Fraction(ds) == IF ds = <<>> THEN <<>> ELSE <<".">> \o ds

PrintRounded(ds, x) ==
  IF x < -4 \/ x >= 6
    THEN <<ds[1]>> \o Fraction(Tail(ds)) \o <<"e", IF x < 0 THEN "-" ELSE "+">>
           \o (IF (IF x < 0 THEN 0 - x ELSE x) < 10 THEN <<"0">> ELSE <<>>)
           \o DigitsOf(IF x < 0 THEN 0 - x ELSE x)
  ELSE IF x < 0 THEN <<"0", ".">> \o Zeros(0 - x - 1) \o ds
  ELSE IF Len(ds) <= x + 1 THEN ds \o Zeros(x + 1 - Len(ds))
  ELSE SubSeq(ds, 1, x + 1) \o Fraction(SubSeq(ds, x + 2, Len(ds)))

print_number(num) ==
  IF ~num.known THEN <<"?">>
  ELSE IF num.m = 0 THEN <<"0">>
  ELSE PrintRounded(DigitsOf(SixDigits(num).m),
                    Len(DigitsOf(SixDigits(num).m)) - 1 + SixDigits(num).e)

(***************************************************************************)
(* The callbacks of json_tree.cc on the tree t.  New(t, n) allocates the   *)
(* node n; its address is Len(t.heap) + 1.                                 *)
(***************************************************************************)
New(t, n) == [t EXCEPT !.heap = Append(@, n)]

IsColl(t, id) == t.heap[id].type \in {"root", "obj", "array"}

start_cb_keeping(t, type) ==
  IF t.st = <<>> \/ ~IsColl(t, top(t)) THEN Faulted(t)
  ELSE push([New(t, Node(type)) EXCEPT !.heap = add(@, top(t), Len(t.heap) + 1)],
            Len(t.heap) + 1)

start_cb(t, type) ==
  IF t.st = <<>> \/ ~IsColl(t, top(t)) THEN Faulted(t)
  ELSE push(IF t.heap[top(t)].type = "obj"
              THEN pop([New(t, Node(type)) EXCEPT !.heap = add(@, top(t), Len(t.heap) + 1)])
              ELSE [New(t, Node(type)) EXCEPT !.heap = add(@, top(t), Len(t.heap) + 1)],
            Len(t.heap) + 1)

obj_start_cb(t) == start_cb(t, "objlist")

array_start_cb(t) == start_cb(t, "array")

end_cb(t) == IF t.st = <<>> THEN Faulted(t) ELSE pop(t)

obj_end_cb(t) == end_cb(t)

array_end_cb(t) == end_cb(t)

key_cb(name, t) ==
  IF t.st = <<>> \/ t.heap[top(t)].type # "objlist" THEN Faulted(t)
  ELSE push([New(t, obj_node(name)) EXCEPT !.heap[top(t)].v = Append(@, Len(t.heap) + 1)],
            Len(t.heap) + 1)

(***************************************************************************)
(* The node a primitive becomes, by its terminal and its text; a null is   *)
(* the null pointer and allocates nothing.                                 *)
(***************************************************************************)
IsNull(data, term) ==
  /\ term # T_STRING
  /\ strcasecmp(<<"f", "a", "l", "s", "e">>, data) # 0
  /\ strcasecmp(<<"t", "r", "u", "e">>, data) # 0
  /\ strcasecmp(<<"n", "u", "l", "l">>, data) = 0

Leaf_conflating(data, term) ==
  IF strcasecmp(<<"f", "a", "l", "s", "e">>, data) = 0 THEN bool_node(FALSE)
  ELSE IF strcasecmp(<<"t", "r", "u", "e">>, data) = 0 THEN bool_node(TRUE)
  ELSE IF term = T_STRING THEN string_node(data)
  ELSE number_node(strtod(data))

Leaf(data, term) ==
  IF term = T_STRING THEN string_node(data)
  ELSE IF strcasecmp(<<"f", "a", "l", "s", "e">>, data) = 0 THEN bool_node(FALSE)
  ELSE IF strcasecmp(<<"t", "r", "u", "e">>, data) = 0 THEN bool_node(TRUE)
  ELSE number_node(strtod(data))

data_added(t, data, term) ==
  IF IsNull(data, term) THEN [t EXCEPT !.heap = add(@, top(t), 0)]
  ELSE [New(t, Leaf(data, term)) EXCEPT !.heap = add(@, top(t), Len(t.heap) + 1)]

obj_data_cb_keeping(data, term, t) ==
  IF t.st = <<>> \/ t.heap[top(t)].type # "obj" THEN Faulted(t)
  ELSE data_added(t, data, term)

obj_data_cb(data, term, t) ==
  IF t.st = <<>> \/ t.heap[top(t)].type # "obj" THEN Faulted(t)
  ELSE pop(data_added(t, data, term))

array_data_cb(data, term, t) ==
  IF t.st = <<>> \/ t.heap[top(t)].type # "array" THEN Faulted(t)
  ELSE data_added(t, data, term)

(***************************************************************************)
(* The tree the callbacks build from the events of a run, starting with    *)
(* the root node alone on the stack (usage_example.cc lines 56-58).        *)
(***************************************************************************)
Callback(t, ev) ==
  IF t.fault THEN t
  ELSE CASE ev.kind = "obj_start" -> obj_start_cb(t)
         [] ev.kind = "key" -> key_cb(ev.text, t)
         [] ev.kind = "obj_primitive" -> obj_data_cb(ev.text, ev.term, t)
         [] ev.kind = "obj_end" -> obj_end_cb(t)
         [] ev.kind = "array_start" -> array_start_cb(t)
         [] ev.kind = "array_primitive" -> array_data_cb(ev.text, ev.term, t)
         [] OTHER -> array_end_cb(t)

RECURSIVE BuildFrom(_, _)
BuildFrom(t, evs) == IF evs = <<>> THEN t ELSE BuildFrom(Callback(t, Head(evs)), Tail(evs))

Build(evs) == BuildFrom(tree_init, evs)

(***************************************************************************)
(* node::print for the node at address id (0 prints null); the members of  *)
(* an array_node or an obj_list_node are joined by ", ".                   *)
(***************************************************************************)
RECURSIVE print(_, _)
RECURSIVE print_list(_, _, _)

print_list(heap, ids, i) ==
  IF i > Len(ids) THEN <<>>
  ELSE (IF i > 1 THEN <<",", " ">> ELSE <<>>) \o print(heap, ids[i]) \o print_list(heap, ids, i + 1)

print(heap, id) ==
  IF id = 0 THEN <<"n", "u", "l", "l">>
  ELSE CASE heap[id].type = "string" -> <<"\"">> \o heap[id].name \o <<"\"">>
         [] heap[id].type = "number" -> print_number(heap[id].num)
         [] heap[id].type = "bool" ->
              IF heap[id].flag THEN <<"t", "r", "u", "e">> ELSE <<"f", "a", "l", "s", "e">>
         [] heap[id].type = "root" -> print(heap, heap[id].value)
         [] heap[id].type = "obj" ->
              <<"\"">> \o heap[id].name \o <<"\"", " ", ":", " ">> \o print(heap, heap[id].value)
         [] heap[id].type = "array" -> <<"[">> \o print_list(heap, heap[id].v, 1) \o <<"]">>
         [] OTHER -> <<"{">> \o print_list(heap, heap[id].v, 1) \o <<"}">>

(***************************************************************************)
(* A second driver, for the inputs the tests and the documentation spell   *)
(* out character by character: the whole document is chosen at the start   *)
(* (rest holds what has not been sent yet), each pass sends a non-empty    *)
(* prefix of rest, cut anywhere, and the closure loop is the same.         *)
(***************************************************************************)
Documents ==
  { <<"t", "r", "i">>,
    <<"[", "t", "r", "i">>,
    <<"{", " ", "f", "a", "l", "s", "e", " ", ":", " ", "1", ".", "3">>,
    <<"{", " ", "\"", "h", "e", "l", "l", "o", "\"", " ", ":", " ", "1", "2", "3", ".", "4", "}", " ">>,
    <<"[", "\"", "t", "r", "u", "e", "\"", ",", " ", "t", "r", "u", "e", "]">>,
    <<"[", "\"", "n", "u", "l", "l", "\"", ",", " ", "n", "u", "l", "l", "]">>,
    <<"[", "\"", "1", "2", "3", "\"", ",", " ", "1", "2", "3", "]">>,
    <<"[", "f", "a", "l", "s", "e", ",", " ", "\"", "f", "a", "l", "s", "e", "\"", "]">>,
    <<"{", "\"", "a", "\"", ":", "\"", "t", "r", "u", "e", "\"", ",", "\"", "b", "\"", ":", "t", "r", "u", "e", "}">>,
    <<"{", "\"", "a", "\"", ":", "\"", "n", "u", "l", "l", "\"", ",", "\"", "b", "\"", ":", "n", "u", "l", "l", "}">>,
    <<"{", "\"", "a", "\"", ":", "\"", "1", "2", "3", "\"", ",", "\"", "b", "\"", ":", "1", "2", "3", "}">>,
    <<"[", "\"", "\\", "\"", "\"", "]">>,
    <<"[", "\"", "\\", "\\", "\"", "]">>,
    <<"{", "\"", "\\", "\"", "\"", ":", "1", "}">>,
    <<"[", "1", ",", " ", "\"", "a", "\"", ",", " ", "[", "]", ",", " ", "{", "}", "]">>,
    <<"{", "\"", "a", "\"", " ", ":", " ", "{", "\"", "b", "\"", " ", ":", " ", "[", "1", "]", "}", ",", " ", "\"", "c", "\"", " ", ":", " ", "[", "]", "}">>,
    <<"[", "[", "[", "[", "1", "]", "]", "]", "]">>,
    <<"[", "{", "\"", "a", "\"", ":", "{", "\"", "a", "\"", ":", "[", "]", "}", "}", "]">>,
    <<"[", "1", "]">>,
    <<"[", "1", ",", "1", "]">>,
    <<"[", "1", ",", "1", ",", "1", "]">>,
    <<"[", "1", ",", "1", ",", "1", ",", "1", ",", "1", ",", "1", ",", "1", "]">>,
    <<"{", "\"", "a", "\"", ":", "1", "}">>,
    <<"{", "\"", "a", "\"", ":", "1", ",", "\"", "a", "\"", ":", "1", "}">>,
    <<"{", "\"", "a", "\"", ":", "1", ",", "\"", "a", "\"", ":", "1", ",", "\"", "a", "\"", ":", "1", ",", "\"", "a", "\"", ":", "1", "}">>}

DocInit ==
  /\ p = parser_init(HookNames)
  /\ str = <<>>
  /\ events = <<>>
  /\ toks = <<>>
  /\ result = "NONE"
  /\ text = <<>>
  /\ rest \in Documents
  /\ pieces = <<>>
  /\ split = FALSE
  /\ nempty = 0
  /\ build = "unknown"

FeedRest ==
  /\ Running
  /\ nempty = 0
  /\ rest # <<>>
  /\ Send(rest, 1)
  /\ UNCHANGED <<pieces, nempty>>

DocNext == FeedRest \/ Close

DocSpec == DocInit /\ [][DocNext]_vars


(***************************************************************************)
(* The driver on documents that hold one string literal with a \u escape:  *)
(* ["\u....."], the escape followed by every sequence of four characters   *)
(* of EscChars (hexadecimal digits, and the characters the extraction      *)
(* s >> std::hex >> unicode treats specially or rejects), by shorter       *)
(* sequences, and by a few chosen code units.                              *)
(***************************************************************************)
EscChars == {"0", "1", "8", "f", "x", "-", " "}

EscBodies ==
  { <<a, b, c, d>> : a \in EscChars, b \in EscChars, c \in EscChars, d \in EscChars }
  \cup { <<a, b>> : a \in EscChars, b \in EscChars }
  \cup { <<>>, <<"0", "0", "7", "f">>, <<"0", "7", "f", "f">>, <<"0", "0", "e", "9">>,
         <<"d", "8", "3", "4">>, <<"1", "2", "3">>, <<"1", "2", "g", "4">>,
         <<"0", "x", "1", "8", "z">>, <<"0", "0", "e", "9", "s">> }

EscDoc(body) == <<"[", "\"", "\\", "u">> \o body \o <<"\"", "]">>

EscDocuments == { EscDoc(body) : body \in EscBodies }

EscInit ==
  /\ p = parser_init(HookNames)
  /\ str = <<>>
  /\ events = <<>>
  /\ toks = <<>>
  /\ result = "NONE"
  /\ text = <<>>
  /\ rest \in EscDocuments
  /\ pieces = <<>>
  /\ split = FALSE
  /\ nempty = 0
  /\ build = "unknown"

EscSpec == EscInit /\ [][DocNext]_vars

(***************************************************************************)
(* The driver with any subset of the seven hooks set before the first      *)
(* call, on a document that fires every hook, on one with a syntax error   *)
(* and on one that sends the scanner out of its table.                     *)
(***************************************************************************)
HookDocuments ==
  { <<"{", "\"", "a", "\"", ":", "1", ",", "\"", "b", "\"", ":", "[", "2", "]", "}">>,
    <<"[", "1", ",", "}", "]">>,
    <<"[", "0", " ", "]">> }

HookInit ==
  /\ p \in { parser_init(H) : H \in SUBSET HookNames }
  /\ str = <<>>
  /\ events = <<>>
  /\ toks = <<>>
  /\ result = "NONE"
  /\ text = <<>>
  /\ rest \in HookDocuments
  /\ pieces = <<>>
  /\ split = FALSE
  /\ nempty = 0
  /\ build = "unknown"

HookSpec == HookInit /\ [][DocNext]_vars
(***************************************************************************)
(* The reference grammar, read over the pieces of the input:               *)
(*   document -> object | array                                            *)
(*   object   -> L_BRACE [member (COMMA member)*] R_BRACE                  *)
(*   member   -> STRING COLON value                                        *)
(*   array    -> L_BRACKET [value (COMMA value)*] R_BRACKET                *)
(*   value    -> STRING | OTHER | object | array                           *)
(* PieceKind gives the token a piece stands for: 0 for a blank, PENDING    *)
(* for an unfinished lexeme.  Two lexemes that touch (a number right       *)
(* before a string, two digits) are not separate tokens; the grammar is    *)
(* read only over inputs whose pieces are WellSeparated.  Derive runs the  *)
(* grammar's pushdown recogniser: expect is "done" after a complete        *)
(* document and "bad" once no document can begin this way.                 *)
(* These definitions state what the claims call a valid document; the      *)
(* parser is compared with them, they are not part of it.                  *)
(***************************************************************************)
PieceKind ==
  <<L_BRACE, R_BRACE, L_BRACKET, R_BRACKET, COMMA, COLON, 0,
    T_STRING, T_OTHER, T_OTHER, T_PENDING, T_PENDING,
    L_BRACE, T_STRING, COMMA, COLON, T_OTHER>>

IsWord(i) == PieceKind[i] \in {T_STRING, T_OTHER, T_PENDING}

EndsBlank(i) == Pieces[i][Len(Pieces[i])] = " "

WellSeparated(ps) ==
  \A i \in 1..(Len(ps) - 1) : ~(IsWord(ps[i]) /\ ~EndsBlank(ps[i]) /\ IsWord(ps[i + 1]))

Closed(stack) ==
  [stack |-> SubSeq(stack, 1, Len(stack) - 1),
   expect |-> IF Len(stack) = 1 THEN "done" ELSE "more"]

Opened(stack, k) ==
  IF k = L_BRACE THEN [stack |-> Append(stack, "object"), expect |-> "first key"]
  ELSE [stack |-> Append(stack, "array"), expect |-> "first value"]

Bad == [stack |-> <<>>, expect |-> "bad"]

Value(cfg, k) ==
  IF k \in {T_STRING, T_OTHER} THEN [cfg EXCEPT !.expect = "more"]
  ELSE IF k \in {L_BRACE, L_BRACKET} THEN Opened(cfg.stack, k)
  ELSE Bad

GrammarStep(cfg, k) ==
  CASE cfg.expect = "document" ->
         IF k \in {L_BRACE, L_BRACKET} THEN Opened(cfg.stack, k) ELSE Bad
    [] cfg.expect = "first key" ->
         IF k = T_STRING THEN [cfg EXCEPT !.expect = "colon"]
         ELSE IF k = R_BRACE THEN Closed(cfg.stack) ELSE Bad
    [] cfg.expect = "key" ->
         IF k = T_STRING THEN [cfg EXCEPT !.expect = "colon"] ELSE Bad
    [] cfg.expect = "colon" ->
         IF k = COLON THEN [cfg EXCEPT !.expect = "value"] ELSE Bad
    [] cfg.expect = "value" -> Value(cfg, k)
    [] cfg.expect = "first value" ->
         IF k = R_BRACKET THEN Closed(cfg.stack) ELSE Value(cfg, k)
    [] cfg.expect = "more" ->
         IF cfg.stack[Len(cfg.stack)] = "object"
           THEN IF k = COMMA THEN [cfg EXCEPT !.expect = "key"]
                ELSE IF k = R_BRACE THEN Closed(cfg.stack) ELSE Bad
           ELSE IF k = COMMA THEN [cfg EXCEPT !.expect = "value"]
                ELSE IF k = R_BRACKET THEN Closed(cfg.stack) ELSE Bad
    [] OTHER -> Bad

RECURSIVE Derive(_, _)
Derive(cfg, ks) ==
  IF ks = <<>> THEN cfg
  ELSE Derive(IF Head(ks) = 0 THEN cfg ELSE GrammarStep(cfg, Head(ks)), Tail(ks))

Derived(ks) == Derive([stack |-> <<>>, expect |-> "document"], ks).expect

PieceKinds(ps) == [i \in 1..Len(ps) |-> PieceKind[ps[i]]]

TokenKinds(ts) == [i \in 1..Len(ts) |-> ts[i].kind]

ValidDocument(ps) == WellSeparated(ps) /\ Derived(PieceKinds(ps)) = "done"

ValidPrefix(ps) == WellSeparated(ps) /\ Derived(PieceKinds(ps)) \notin {"done", "bad"}

(***************************************************************************)
(* C1  Chunking independence: however the input was cut into non-empty     *)
(* chunks, the callback events (kind and payload) and the result after the *)
(* same number of closure signals are those of the run that feeds the same *)
(* input as one chunk.                                                     *)
(***************************************************************************)
C1_ChunkingIndependence ==
  text # <<>> =>
    \E ref \in {RefRun(nempty)} :
      /\ SameBuild(ref)
      /\ ref.events = events
      /\ ref.result = result

C1_Witness ==
  /\ split
  /\ result = "OK"
  /\ Len(events) = 4
  /\ events[3] = Event("obj_primitive", <<"1">>, T_OTHER)

IsToken(t) == t.kind # EOS

(***************************************************************************)
(* C2  Scanner resumability: while input is still being fed, the tokens    *)
(* scanner::get has returned (kind and payload, the end-of-stream marker   *)
(* of a chunk boundary between tokens left out) and the scanner's state    *)
(* (DFA state, lexeme buffer, last accepting state, overshoot count,       *)
(* context, pushback) are those of the run in which all the characters     *)
(* came as one piece; running out of input inside a token gives PENDING.   *)
(***************************************************************************)
C2_ScannerResumable ==
  /\ (text # <<>> /\ nempty = 0) =>
       \E ref \in {RefRun(0)} :
         /\ SameBuild(ref)
         /\ SelectSeq(toks, IsToken) = SelectSeq(ref.toks, IsToken)
         /\ p.scanner = ref.p.scanner
  /\ (nempty = 0 /\ p.scanner.data # <<>> /\ result # "CRASH") =>
       /\ result = "PENDING"
       /\ toks # <<>> => toks[Len(toks)].kind # T_ERROR

C2_Witness ==
  /\ split
  /\ pieces = <<3, 8, 4>>
  /\ rest = <<>>
  /\ result = "PENDING"
  /\ toks = <<[kind |-> L_BRACKET, text |-> <<"[">>], [kind |-> T_STRING, text |-> <<"a">>]>>
  /\ p.scanner.data = <<"]">>

(***************************************************************************)
(* C3  parse() does not return OK on a call that was given a non-empty     *)
(* chunk.  OK comes only from a closure call whose first scanner read      *)
(* found no input (the last token logged is EOS and nothing was read       *)
(* after it), with the stream exhausted, no lexeme or pushback left in the *)
(* scanner and the parser's stack empty.                                   *)
(***************************************************************************)
C3_OkOnlyOnClosure ==
  /\ nempty = 0 => result # "OK"
  /\ result = "OK" =>
       /\ nempty >= 1
       /\ toks[Len(toks)].kind = EOS
       /\ str = <<>>
       /\ rest = <<>>
       /\ p.scanner.data = <<>>
       /\ p.scanner.buf = <<>>
       /\ p.st = <<>>

C3_Witness ==
  /\ result = "OK"
  /\ nempty = 1
  /\ text = <<"{", "}", " ">>
  /\ events = <<Event("obj_start", <<>>, 0), Event("obj_end", <<>>, 0)>>

(***************************************************************************)
(* C4: once every chunk has been fed and every call has answered PENDING,  *)
(* the closure loop (empty feeds while the answer is PENDING) ends with OK *)
(* or ERROR, after at most two empty feeds: an empty feed answers PENDING, *)
(* OK or ERROR, and the second one no longer answers PENDING.              *)
(***************************************************************************)
C4_DrainEndsOkOrError ==
  /\ nempty >= 1 => result \in {"PENDING", "OK", "ERROR"}
  /\ nempty >= 2 => result \in {"OK", "ERROR"}

(***************************************************************************)
(* C5: for a valid document, every call fed a non-empty chunk of it        *)
(* answers PENDING; once the whole document is in, the first empty feed    *)
(* answers OK exactly when blanks follow the closing brace or bracket and  *)
(* PENDING otherwise, and then the second empty feed answers OK.           *)
(***************************************************************************)
C5_ClosureProtocol ==
  /\ ((ValidPrefix(pieces) \/ ValidDocument(pieces)) /\ nempty = 0 /\ text # <<>>)
       => result = "PENDING"
  /\ (ValidDocument(pieces) /\ rest = <<>> /\ nempty = 1)
       => /\ result = "OK" <=> pieces[Len(pieces)] = 7
          /\ pieces[Len(pieces)] # 7 => result = "PENDING"
  /\ (ValidDocument(pieces) /\ rest = <<>> /\ nempty = 2) => result = "OK"

(***************************************************************************)
(* KeyAt(i): the i-th token logged is a STRING standing where the grammar  *)
(* expects a key, and another token follows it.                            *)
(***************************************************************************)
KeyAt(i) ==
  /\ i < Len(toks)
  /\ toks[i].kind = T_STRING
  /\ Derived(TokenKinds(SubSeq(toks, 1, i - 1))) \in {"first key", "key"}

(***************************************************************************)
(* C6: an object member is key COLON value.  When a COMMA follows a key,   *)
(* the call that logged the comma returned ERROR (the comma is the last    *)
(* token and the result is ERROR) and the key event is the last event, so  *)
(* no value event follows it.  When a COLON follows a key the call did not *)
(* fail on it, and a primitive value after the colon is reported by        *)
(* obj_primitive.                                                          *)
(***************************************************************************)
C6_MemberIsKeyColonValue ==
  \A i \in 1..Len(toks) :
    /\ (KeyAt(i) /\ toks[i + 1].kind = COMMA)
         => /\ i + 1 = Len(toks)
            /\ result = "ERROR"
            /\ events # <<>>
            /\ events[Len(events)] = Event("key", toks[i].text, 0)
    /\ (KeyAt(i) /\ toks[i + 1].kind = COLON)
         => /\ i + 1 = Len(toks) => result = "PENDING"
            /\ (i + 2 <= Len(toks) /\ toks[i + 2].kind \in {T_STRING, T_OTHER})
                 => \E j \in 1..Len(events) :
                      events[j] = Event("obj_primitive", toks[i + 2].text, toks[i + 2].kind)

C6_Witness ==
  /\ result = "ERROR"
  /\ split
  /\ TokenKinds(toks) = <<L_BRACE, T_STRING, COMMA>>
  /\ KeyAt(2)
  /\ events = <<Event("obj_start", <<>>, 0), Event("key", <<"a">>, 0)>>

(***************************************************************************)
(* The comma form and the colon form of a one-member object, and the       *)
(* events of that object.                                                  *)
(***************************************************************************)
CommaForm == <<"{", " ", "\"", "a", "\"", " ", ",", " ", "1", " ", "}">>

ColonForm == <<"{", " ", "\"", "a", "\"", " ", ":", " ", "1", " ", "}">>

IsPrefix(s, t) == Len(s) <= Len(t) /\ SubSeq(t, 1, Len(s)) = s

MemberEvents ==
  <<Event("obj_start", <<>>, 0), Event("key", <<"a">>, 0),
    Event("obj_primitive", <<"1">>, T_OTHER), Event("obj_end", <<>>, 0)>>

(***************************************************************************)
(* C7, as claimed: objects separate key and value with a comma.  Feeding   *)
(* `{ "a" , 1 }` answers PENDING, the closure ends with OK and the events  *)
(* obj_start, key("a"), obj_primitive("1", OTHER), obj_end, and the form   *)
(* `{ "a" : 1 }` does not reach OK.                                        *)
(***************************************************************************)
C7_CommaSeparatedMembers ==
  /\ (text # <<>> /\ IsPrefix(text, CommaForm) /\ nempty = 0) => result = "PENDING"
  /\ (text = CommaForm /\ result # "PENDING") => (result = "OK" /\ events = MemberEvents)
  /\ text = ColonForm => result # "OK"

(***************************************************************************)
(* C7, amended: objects separate key and value with a colon.  Feeding      *)
(* `{ "a" : 1 }` answers PENDING, the first empty feed answers PENDING     *)
(* (nothing follows the closing brace), the second answers OK with the     *)
(* events obj_start, key("a"), obj_primitive("1", OTHER), obj_end; and the *)
(* call that recognises the comma of `{ "a" , ...` answers ERROR after     *)
(* obj_start and key("a").                                                 *)
(***************************************************************************)
C7_ColonSeparatedMembers ==
  /\ (text # <<>> /\ IsPrefix(text, ColonForm) /\ nempty = 0) => result = "PENDING"
  /\ (text = ColonForm /\ nempty = 1) => result = "PENDING"
  /\ (text = ColonForm /\ nempty = 2) => (result = "OK" /\ events = MemberEvents)
  /\ (Len(text) > 7 /\ IsPrefix(SubSeq(CommaForm, 1, 7), text))
       => /\ result = "ERROR"
          /\ events = SubSeq(MemberEvents, 1, 2)
          /\ toks[Len(toks)].kind = COMMA

C7_Witness ==
  /\ text = ColonForm
  /\ split
  /\ nempty = 2
  /\ result = "OK"
  /\ events = MemberEvents

(***************************************************************************)
(* TrailingJunk(ps): a proper prefix of the pieces is a valid document and *)
(* a piece that is not blank follows it.                                   *)
(***************************************************************************)
TrailingJunk(ps) ==
  \E k \in 1..(Len(ps) - 1) :
    /\ ValidDocument(SubSeq(ps, 1, k))
    /\ \E j \in (k + 1)..Len(ps) : PieceKind[ps[j]] # 0

(***************************************************************************)
(* C8: trailing junk is rejected.  When something that is not blank        *)
(* follows a complete document, then for every chunking no call answers    *)
(* OK, a call answers PENDING or ERROR, and the closure loop ends with     *)
(* ERROR by the second empty feed.                                         *)
(***************************************************************************)
C8_TrailingJunkRejected ==
  (TrailingJunk(pieces) /\ rest = <<>>)
    => /\ result \in {"PENDING", "ERROR"}
       /\ nempty >= 2 => result = "ERROR"

(***************************************************************************)
(* C9: premature end of stream.  When the closure signal arrives after     *)
(* complete tokens that begin a document without finishing it, an empty    *)
(* feed never answers OK, and the second one answers ERROR (the first may  *)
(* answer PENDING when it flushes the last token).                         *)
(***************************************************************************)
C9_PrematureEos ==
  (ValidPrefix(pieces) /\ rest = <<>> /\ nempty >= 1)
    => /\ result \in {"PENDING", "ERROR"}
       /\ nempty >= 2 => result = "ERROR"

C9_Witness ==
  /\ pieces = <<3, 9, 5>>
  /\ nempty = 2
  /\ result = "ERROR"
  /\ toks[Len(toks)].kind = EOS
  /\ events = <<Event("array_start", <<>>, 0), Event("array_primitive", <<"1">>, T_OTHER)>>

(***************************************************************************)
(* C10: unfinished token at closure.  When an empty feed is made while the *)
(* scanner holds a lexeme for which no accepting state was reached,        *)
(* scanner::get returns ERROR (the token logged by that call is ERROR) and *)
(* parse() returns ERROR.                                                  *)
(***************************************************************************)
C10_UnfinishedTokenAtClosure ==
  [][(p.scanner.last_final = -1 /\ p.scanner.data # <<>> /\ nempty' = nempty + 1)
       => /\ result' = "ERROR"
          /\ toks' = Append(toks, [kind |-> T_ERROR, text |-> <<>>])]_vars

C10_Witness ==
  /\ text = <<"[", "t", "r">>
  /\ nempty = 1
  /\ result = "ERROR"
  /\ toks # <<>>
  /\ toks[Len(toks)].kind = T_ERROR
  /\ events = <<Event("array_start", <<>>, 0)>>

(***************************************************************************)
(* Characters of every class of the scanner's alphabet, and what may       *)
(* follow them in the same chunk.                                          *)
(***************************************************************************)
ProbeChars == {"i", "u", "e", "x", "1", "0", ".", "-", " ", "]", ":", "\"", "\\"}

ProbeTails == {<<>>, <<"1">>, <<"\"", "]">>}

(***************************************************************************)
(* C11: a lexical error is reported at once.  Between two calls, when the  *)
(* scanner has passed no accepting state since the token began and the     *)
(* next character has no arc from the DFA state (st gives -1), the call    *)
(* that reads this character returns ERROR, whatever follows it in the     *)
(* chunk: scanner::get answers ERROR and no event is emitted.  The single  *)
(* chunk `tri` gives ERROR on the first call.                              *)
(***************************************************************************)
C11_LexicalErrorAtOnce ==
  /\ (Running /\ nempty = 0 /\ p.scanner.last_final = -1 /\ InRange(p.scanner.crt))
       => \A c \in ProbeChars : \A tail \in ProbeTails :
            StAt(p.scanner.crt, translate(c, p.scanner.context).type, "crash") = -1
              => \E r \in {parse(p, <<c>> \o tail, events, toks, "crash")} :
                   /\ r.result = "ERROR"
                   /\ r.toks = Append(toks, [kind |-> T_ERROR, text |-> <<>>])
                   /\ r.events = events
  /\ text = <<"t", "r", "i">> => (result = "ERROR" /\ nempty = 0)

C11_Witness ==
  /\ text = <<"t", "r", "i">>
  /\ ~split
  /\ nempty = 0
  /\ result = "ERROR"
  /\ toks = <<[kind |-> T_ERROR, text |-> <<>>]>>
  /\ events = <<>>

(***************************************************************************)
(* The tokens logged so far, without the end-of-stream markers of chunk    *)
(* boundaries, and their kinds.                                            *)
(***************************************************************************)
LoggedKinds == TokenKinds(SelectSeq(toks, IsToken))

(***************************************************************************)
(* C12: a syntax error is reported by the call in which the scanner        *)
(* finishes recognising the offending token.  When the tokens logged no    *)
(* longer begin a document of the grammar, the offending token is the last *)
(* one logged (the tokens before it do begin one), nothing was logged      *)
(* after it and the result is ERROR.  While the offending token is still   *)
(* incomplete at a chunk end the call returns PENDING: `{ fals` and        *)
(* `{ false` give PENDING with only L_BRACE logged, and the call that      *)
(* reads the blank after `false` logs OTHER("false") and returns ERROR.    *)
(***************************************************************************)
C12_SyntaxErrorWhenTokenEnds ==
  /\ (LoggedKinds # <<>> /\ Derived(LoggedKinds) = "bad"
        /\ LoggedKinds[Len(LoggedKinds)] # T_ERROR)
       => /\ result = "ERROR"
          /\ toks[Len(toks)].kind = LoggedKinds[Len(LoggedKinds)]
          /\ Derived(SubSeq(LoggedKinds, 1, Len(LoggedKinds) - 1)) # "bad"
  /\ (nempty = 0 /\ text \in {<<"{", " ", "f", "a", "l", "s">>,
                              <<"{", " ", "f", "a", "l", "s", "e">>})
       => /\ result = "PENDING"
          /\ SelectSeq(toks, IsToken) = <<[kind |-> L_BRACE, text |-> <<"{">>]>>
  /\ IsPrefix(<<"{", " ", "f", "a", "l", "s", "e", " ">>, text)
       => /\ result = "ERROR"
          /\ SelectSeq(toks, IsToken) =
               <<[kind |-> L_BRACE, text |-> <<"{">>],
                 [kind |-> T_OTHER, text |-> <<"f", "a", "l", "s", "e">>]>>
          /\ events = <<Event("obj_start", <<>>, 0)>>

C12_Witness ==
  /\ text = <<"{", " ", "f", "a", "l", "s", "e", " ">>
  /\ split
  /\ nempty = 0
  /\ result = "ERROR"
  /\ toks[Len(toks)] = [kind |-> T_OTHER, text |-> <<"f", "a", "l", "s", "e">>]

(***************************************************************************)
(* Strip(ps): the pieces without the blanks at their token boundaries (the *)
(* blank pieces and the blank that ends a piece).  The blanks of ps stand  *)
(* at token boundaries outside strings when no piece opens a string        *)
(* without closing it and the stripped pieces are still separate tokens.   *)
(* Stripped(bld) is the run that feeds the stripped input as one chunk and *)
(* closes it.                                                              *)
(***************************************************************************)
StripPiece ==
  [i \in 1..Len(Pieces) |->
     CASE i = 13 -> 1 [] i = 14 -> 8 [] i = 15 -> 5 [] i = 16 -> 6 [] i = 17 -> 9
       [] OTHER -> i]

NotBlank(i) == i # 7

Strip(ps) == SelectSeq([i \in 1..Len(ps) |-> StripPiece[ps[i]]], NotBlank)

BlanksAtBoundaries(ps) ==
  /\ \A i \in 1..Len(ps) : ps[i] # 12
  /\ WellSeparated(Strip(ps))

Stripped(bld) == OneChunk(Flatten(Strip(pieces)), 2, bld)

(***************************************************************************)
(* C13: whitespace transparency.  When a run has ended, and its blanks     *)
(* stand at token boundaries outside strings, its result and its events    *)
(* are those of the run on the same input without these blanks; and the    *)
(* five blank characters are all of class BLANK outside strings.           *)
(***************************************************************************)
C13_WhitespaceTransparent ==
  /\ \A c \in Blanks : translate(c, "DFLT_CONTEXT").type = BLANK
  /\ (rest = <<>> /\ BlanksAtBoundaries(pieces) /\ ~Running)
       => \E ref \in {Stripped(IF build = "unknown" THEN "crash" ELSE build)} :
            /\ ref.result = result
            /\ ref.events = events


(***************************************************************************)
(* The shape of the tree below the node at address id, in preorder: the    *)
(* type of every node with its key or string, its number and its constant, *)
(* a null element as a node of type "null", and the end of every node's    *)
(* children.                                                               *)
(***************************************************************************)
ShapeOf(n) == [type |-> n.type, name |-> n.name, num |-> n.num, flag |-> n.flag]

RECURSIVE Shape(_, _)
RECURSIVE ShapeList(_, _, _)

ShapeList(heap, ids, i) ==
  IF i > Len(ids) THEN <<>>
  ELSE Shape(heap, ids[i]) \o ShapeList(heap, ids, i + 1)

Shape(heap, id) ==
  IF id = 0 THEN <<ShapeOf(Node("null"))>>
  ELSE <<ShapeOf(heap[id])>>
         \o (IF heap[id].type \in {"root", "obj"} THEN Shape(heap, heap[id].value)
             ELSE ShapeList(heap, heap[id].v, 1))
         \o <<ShapeOf(Node("end"))>>

Printed == print(Build(events).heap, 1)

Reparsed == OneChunk(Printed, 2, IF build = "unknown" THEN "crash" ELSE build)

(***************************************************************************)
(* C14: round trip.  When a document has been accepted, the text that      *)
(* operator<< prints for the tree built from its events is accepted in     *)
(* turn, and the tree built from it has the same shape, keys and           *)
(* primitive values.                                                       *)
(***************************************************************************)
C14_RoundTrip ==
  result = "OK"
    => /\ Reparsed.result = "OK"
       /\ Shape(Build(Reparsed.events).heap, 1) = Shape(Build(events).heap, 1)

Escaped(d) == \E i \in 1..Len(d) : d[i] = "\\"

C14_RoundTripUnescaped ==
  (result = "OK" /\ ~Escaped(text))
    => /\ Reparsed.result = "OK"
       /\ Shape(Build(Reparsed.events).heap, 1) = Shape(Build(events).heap, 1)

(***************************************************************************)
(* C15: with the callbacks of json_tree.cc and the context stack holding   *)
(* the root node alone, after the result OK no callback has faulted, the   *)
(* stack holds the root node alone again, and the root wraps the           *)
(* document's top-level node, the first node allocated.                    *)
(***************************************************************************)
C15_StackBackAtRoot ==
  result = "OK"
    => \E t \in {Build(events)} :
         /\ ~t.fault
         /\ t.st = <<1>>
         /\ Len(t.heap) >= 2
         /\ t.heap[1].value = 2
         /\ t.heap[2].type \in {"objlist", "array"}

C15_Witness ==
  /\ result = "OK"
  /\ Len(events) = 12
  /\ events[2].kind = "key"
  /\ events[3].kind = "obj_start"
  /\ Build(events).st = <<1>>
  /\ Build(events).heap[1].value = 2

(***************************************************************************)
(* The events of a sequence of tokens, in input order: a brace or bracket  *)
(* starts or ends its collection, a literal inside an array is an array    *)
(* primitive, a literal inside an object is a primitive value after a      *)
(* colon and a key otherwise, commas and colons have no event.  ctx is the *)
(* sequence of the collections open so far, innermost last, and prev the   *)
(* kind of the token before.                                               *)
(***************************************************************************)
EventOf(ctx, prev, tk) ==
  CASE tk.kind = L_BRACE -> <<Event("obj_start", <<>>, 0)>>
    [] tk.kind = R_BRACE -> <<Event("obj_end", <<>>, 0)>>
    [] tk.kind = L_BRACKET -> <<Event("array_start", <<>>, 0)>>
    [] tk.kind = R_BRACKET -> <<Event("array_end", <<>>, 0)>>
    [] tk.kind \in {T_STRING, T_OTHER} /\ ctx # <<>> ->
         IF ctx[Len(ctx)] = "array" THEN <<Event("array_primitive", tk.text, tk.kind)>>
         ELSE IF prev = COLON THEN <<Event("obj_primitive", tk.text, tk.kind)>>
         ELSE <<Event("key", tk.text, 0)>>
    [] OTHER -> <<>>

ContextAfter(ctx, tk) ==
  CASE tk.kind = L_BRACE -> Append(ctx, "obj")
    [] tk.kind = L_BRACKET -> Append(ctx, "array")
    [] tk.kind \in {R_BRACE, R_BRACKET} /\ ctx # <<>> -> SubSeq(ctx, 1, Len(ctx) - 1)
    [] OTHER -> ctx

RECURSIVE EventsOf(_, _, _)
EventsOf(ctx, prev, tks) ==
  IF tks = <<>> THEN <<>>
  ELSE EventOf(ctx, prev, Head(tks))
         \o EventsOf(ContextAfter(ctx, Head(tks)), Head(tks).kind, Tail(tks))

(***************************************************************************)
(* The tokens shifted so far: the tokens the scanner has returned, but for *)
(* the token on which the result ERROR was returned, which is the last.    *)
(***************************************************************************)
Shifted ==
  SelectSeq(IF result = "ERROR" THEN SubSeq(toks, 1, Len(toks) - 1) ELSE toks, IsToken)

(***************************************************************************)
(* C16: after every call the events emitted so far are exactly the events  *)
(* of the tokens shifted so far, in input order: the event of a token is   *)
(* there as soon as the token is, also when the call has ended in the next *)
(* request to the scanner, with PENDING or abnormally.                     *)
(***************************************************************************)
C16_EventsInDocumentOrder == events = EventsOf(<<>>, 0, Shifted)

C16_Witness ==
  /\ result = "PENDING"
  /\ nempty = 0
  /\ Len(toks) >= 3
  /\ toks[Len(toks)].kind = T_OTHER
  /\ events[Len(events)] = Event("obj_primitive", toks[Len(toks)].text, T_OTHER)

(***************************************************************************)
(* The number of quotes of d from position i on that delimit a string: a   *)
(* quote inside a string that follows an escaping backslash is not one.    *)
(***************************************************************************)
RECURSIVE Quotes(_, _, _, _)
Quotes(d, i, inside, esc) ==
  IF i > Len(d) THEN 0
  ELSE IF esc THEN Quotes(d, i + 1, inside, FALSE)
  ELSE IF inside /\ d[i] = "\\" THEN Quotes(d, i + 1, inside, TRUE)
  ELSE IF d[i] = "\"" THEN 1 + Quotes(d, i + 1, ~inside, FALSE)
  ELSE Quotes(d, i + 1, inside, FALSE)

IsString(tk) == tk.kind = T_STRING

IsPrimitive(ev) == ev.kind \in {"obj_primitive", "array_primitive"}

(***************************************************************************)
(* The kinds of node that stand for the values of the top-level            *)
(* collection of the tree t: of its elements, or of its members' values.   *)
(***************************************************************************)
KindOf(heap, id) == IF id = 0 THEN "null" ELSE heap[id].type

ValueKinds(t) ==
  [i \in 1..Len(t.heap[2].v) |->
     IF KindOf(t.heap, t.heap[2].v[i]) = "obj"
       THEN KindOf(t.heap, t.heap[t.heap[2].v[i]].value)
       ELSE KindOf(t.heap, t.heap[2].v[i])]

Lit_true == <<"t", "r", "u", "e">>

Lit_null == <<"n", "u", "l", "l">>

Lit_123 == <<"1", "2", "3">>

Quoted(w) == <<"\"">> \o w \o <<"\"">>

ArrayOf(a, b) == <<"[">> \o a \o <<",", " ">> \o b \o <<"]">>

ObjectOf(a, b) ==
  <<"{">> \o Quoted(<<"a">>) \o <<":">> \o a \o <<",">> \o Quoted(<<"b">>) \o <<":">> \o b \o <<"}">>

RECURSIVE Trace(_, _, _, _)

TraceGot(g, plan, out) ==
  Trace(g.sc, g.str, plan, Append(out, [kind |-> g.tok, text |-> g.text]))

Trace(sc, stream, plan, out) ==
  IF plan = <<>> THEN out
  ELSE IF Head(plan) = <<>> THEN TraceGot(get(sc, stream, "crash"), Tail(plan), out)
  ELSE Trace(sc, stream \o Head(plan), Tail(plan), out)

Tok(kind, chars) == [kind |-> kind, text |-> chars]

Hello == <<"h", "e", "l", "l", "o">>

Chunk1 == <<"{", " ", "\"", "h", "e", "l", "l">>

Chunk2 == <<"o", "\"", " ", ":", " ", "1", "2">>

Chunk3 == <<"3", ".", "4", "}", " ">>

DocumentedPlan ==
  <<Chunk1, <<>>, <<>>, Chunk2, <<>>, <<>>, <<>>, Chunk3, <<>>, <<>>, <<>>, <<>>>>

DocumentedTokens ==
  <<Tok(L_BRACE, <<"{">>), Tok(T_STRING, Hello), Tok(COLON, <<":">>),
    Tok(T_OTHER, <<"1", "2", "3", ".", "4">>), Tok(R_BRACE, <<"}">>)>>

Idle(sc) ==
  sc.crt = 0 /\ sc.last_final = -1 /\ sc.to_unget = 0 /\ sc.data = <<>> /\ sc.buf = <<>>

LogicErrors == {"throw:Stack underflow", "throw:Empty stack", "throw:Invalid arc"}

(***************************************************************************)
(* C19: input errors never surface as internal errors.  Whatever has been  *)
(* fed, the result of every call made is OK, PENDING or ERROR: no logic    *)
(* error leaves parse() and the run does not end abnormally.               *)
(***************************************************************************)
C19_OnlyErrorForBadInput == result \in {"NONE", "OK", "PENDING", "ERROR"}

C19_NoGrammarError == result \notin LogicErrors

(***************************************************************************)
(* The number of collections open after the tokens tks.                    *)
(***************************************************************************)
RECURSIVE Depth(_)
Depth(tks) ==
  IF tks = <<>> THEN 0
  ELSE Depth(SubSeq(tks, 1, Len(tks) - 1))
         + (IF tks[Len(tks)].kind \in {L_BRACE, L_BRACKET} THEN 1
            ELSE IF tks[Len(tks)].kind \in {R_BRACE, R_BRACKET} THEN -1 ELSE 0)

IsComma(tk) == tk.kind = COMMA

FlatArray(tks) ==
  /\ tks # <<>>
  /\ tks[1].kind = L_BRACKET
  /\ \A i \in 2..Len(tks) : tks[i].kind \in {T_OTHER, T_STRING, COMMA}

FlatStackLimit == 12

HookOf(ev) ==
  CASE ev.kind = "obj_primitive" -> "obj_data"
    [] ev.kind = "array_primitive" -> "array_data"
    [] OTHER -> ev.kind

RECURSIVE Delivered(_, _)
Delivered(evs, H) ==
  IF evs = <<>> THEN <<>>
  ELSE (IF HookOf(Head(evs)) \in H THEN <<Head(evs)>> ELSE <<>>) \o Delivered(Tail(evs), H)

Chunk == SubSeq(text', Len(text) + 1, Len(text'))

SameCall(full) ==
  /\ result' = full.result
  /\ p' = [full.p EXCEPT !.hooks = p.hooks]
  /\ str' = full.str
  /\ toks' = full.toks
  /\ events' = events \o Delivered(full.events, p.hooks)

(***************************************************************************)
(* C21: the hooks do not steer the parser.  Whichever subset of the seven  *)
(* hooks is set, every call returns the result, and leaves the parser and  *)
(* scanner state, the stream and the token log, that the parser with all   *)
(* seven hooks set would in the same state on the same chunk; it delivers  *)
(* the events of that call whose hook is set, and no others.               *)
(***************************************************************************)
C21_HooksDoNotSteer ==
  [][SameCall(parse([p EXCEPT !.hooks = HookNames], Chunk, <<>>, toks,
                    IF build' = "unknown" THEN "crash" ELSE build'))]_vars

C21_Witness ==
  /\ result = "OK"
  /\ p.hooks = {}
  /\ events = <<>>
  /\ Len(SelectSeq(toks, IsToken)) = 11

C21_WitnessKeysOnly ==
  /\ result = "OK"
  /\ p.hooks = {"key"}
  /\ events = <<Event("key", <<"a">>, 0), Event("key", <<"b">>, 0)>>

(***************************************************************************)
(* C22: whenever parse() has returned PENDING, every character fed so far  *)
(* has been read: the input stream is at its end and the scanner's         *)
(* pushback buffer is empty.                                               *)
(***************************************************************************)
C22_PendingExhaustsInput ==
  result = "PENDING" => str = <<>> /\ p.scanner.buf = <<>>

C22_Witness ==
  /\ result = "PENDING"
  /\ Len(text) >= 3
  /\ p.scanner.data # <<>>
  /\ str = <<>> /\ p.scanner.buf = <<>>

(***************************************************************************)
(* The standard UTF-8 encoding of a 16-bit code unit, and the number       *)
(* written by a sequence of hexadecimal digits.  EscBody is what follows   *)
(* \u in the string literal of a document of EscDocuments fed whole; the   *)
(* literal is the second token.                                            *)
(***************************************************************************)
Utf8(u) ==
  IF u < 128 THEN <<u>>
  ELSE IF u < 2048 THEN <<192 + (u \div 64), 128 + (u % 64)>>
  ELSE <<224 + (u \div 4096), 128 + ((u \div 64) % 64), 128 + (u % 64)>>

RECURSIVE HexNumber(_)
HexNumber(cs) ==
  IF cs = <<>> THEN 0 ELSE 16 * HexNumber(SubSeq(cs, 1, Len(cs) - 1)) + HexValue(cs[Len(cs)])

IsHexDigits(cs) == \A i \in 1..Len(cs) : HexValue(cs[i]) >= 0

EscBody == SubSeq(text, 5, Len(text) - 2)

FourHexDigits == Len(EscBody) >= 4 /\ IsHexDigits(SubSeq(EscBody, 1, 4))

CodeUnit == HexNumber(SubSeq(EscBody, 1, 4))

EscParsed == result = "OK" /\ rest = <<>> /\ Len(toks) >= 2

(***************************************************************************)
(* C23: for the code unit u written by the four hexadecimal digits of a    *)
(* \u escape, unicode2utf8 returns the standard UTF-8 encoding of u, a     *)
(* sequence of 1 to 3 bytes, and these bytes are the decoded payload.      *)
(***************************************************************************)
C23_StandardUtf8 ==
  EscParsed /\ FourHexDigits =>
    /\ unicode2utf8(CodeUnit) = Utf8(CodeUnit)
    /\ Len(unicode2utf8(CodeUnit)) \in 1..3
    /\ toks[2].text = bytes_to_chars(unicode2utf8(CodeUnit)) \o SubSeq(EscBody, 5, Len(EscBody))

C23_Bit12Clear ==
  EscParsed /\ FourHexDigits /\ CodeUnit # 0 /\ (CodeUnit < 2048 \/ (CodeUnit \div 4096) % 2 = 0) =>
    /\ unicode2utf8(CodeUnit) = Utf8(CodeUnit)
    /\ toks[2].text = bytes_to_chars(Utf8(CodeUnit)) \o SubSeq(EscBody, 5, Len(EscBody))

(***************************************************************************)
(* C24: a \u that is not followed by four hexadecimal digits within the    *)
(* literal contributes a literal u to the payload, the characters after it *)
(* are decoded as ordinary characters, and the token is a STRING.          *)
(***************************************************************************)
C24_MalformedEscapeIsLiteral ==
  EscParsed /\ ~FourHexDigits =>
    /\ toks[2].kind = T_STRING
    /\ toks[2].text = <<"u">> \o EscBody

Plain(c) == c \notin Blanks \cup {"+", "-", "x", "X"}

C24_LiteralWithoutSignBlankPrefix ==
  EscParsed /\ ~FourHexDigits /\ (\A i \in 1..Len(EscBody) : Plain(EscBody[i])) =>
    /\ toks[2].kind = T_STRING
    /\ toks[2].text = <<"u">> \o EscBody

(***************************************************************************)
(* The token sequence is ended by EOS when the driver has looked EOS up in *)
(* its table: EOS is the token logged last and the call was ended by the   *)
(* driver, with OK, ERROR or a logic error of the driver.  An EOS that     *)
(* follows a shift is dropped and the call returns PENDING; a call that    *)
(* the scanner leaves abnormally hands the driver no token.                *)
(***************************************************************************)
EndedByEos ==
  /\ toks # <<>>
  /\ toks[Len(toks)].kind = EOS
  /\ result \in {"OK", "ERROR"} \cup LogicErrors

C25_WitnessRejected ==
  /\ result = "ERROR"
  /\ EndedByEos
  /\ Derived(LoggedKinds) \notin {"done", "bad"}

(***************************************************************************)
(* C26: the scanner's DFA state is always a valid table row.  After every  *)
(* call the current state and the last final state are in 0..27 or the     *)
(* dead marker -1, and no call has indexed st or final out of range (the   *)
(* build's answer to such a read has never been drawn).                    *)
(***************************************************************************)
C26_DfaStateInRange ==
  /\ p.scanner.crt \in -1..27
  /\ p.scanner.last_final \in -1..27
  /\ build = "unknown"

(***************************************************************************)
(* The shape of a lexeme.  A number is an optional sign, 0 or a digit 1-9  *)
(* followed by digits, an optional fraction and an optional exponent; the  *)
(* positions are 0 once the shape is broken.  A keyword is true, false or  *)
(* null in any case.  The lexeme of a STRING token whose literal holds no  *)
(* escape is its payload between two quotes.                               *)
(***************************************************************************)
RECURSIVE num_digits(_, _)
num_digits(cs, i) == IF i <= Len(cs) /\ IsDigit(cs[i]) THEN num_digits(cs, i + 1) ELSE i

num_some_digits(cs, i) == IF i >= 1 /\ i <= Len(cs) /\ IsDigit(cs[i]) THEN num_digits(cs, i + 1) ELSE 0

num_sign(cs, i) == IF i <= Len(cs) /\ cs[i] \in {"+", "-"} THEN i + 1 ELSE i

num_int(cs, i) ==
  IF i <= Len(cs) /\ cs[i] = "0" THEN i + 1 ELSE num_some_digits(cs, i)

num_frac(cs, i) ==
  IF i >= 1 /\ i <= Len(cs) /\ cs[i] = "." THEN num_some_digits(cs, i + 1) ELSE i

num_exp(cs, i) ==
  IF i >= 1 /\ i <= Len(cs) /\ cs[i] \in {"e", "E"}
    THEN num_some_digits(cs, num_sign(cs, i + 1)) ELSE i

IsNumber(cs) == num_exp(cs, num_frac(cs, num_int(cs, num_sign(cs, 1)))) = Len(cs) + 1

IsKeyword(cs) ==
  [i \in 1..Len(cs) |-> ToLower(cs[i])] \in
    {<<"t", "r", "u", "e">>, <<"f", "a", "l", "s", "e">>, <<"n", "u", "l", "l">>}

PunctuationOf(k) ==
  CASE k = L_BRACE -> "{" [] k = R_BRACE -> "}" [] k = L_BRACKET -> "["
    [] k = R_BRACKET -> "]" [] k = COMMA -> "," [] k = COLON -> ":"

LexemeShape(t) ==
  CASE t.kind \in {L_BRACE, R_BRACE, L_BRACKET, R_BRACKET, COMMA, COLON} ->
         t.text = <<PunctuationOf(t.kind)>>
    [] t.kind = T_OTHER -> IsKeyword(t.text) \/ IsNumber(t.text)
    [] OTHER -> TRUE

Lexeme(t) == IF t.kind = T_STRING THEN <<"\"">> \o t.text \o <<"\"">> ELSE t.text

RECURSIVE Lexemes(_)
Lexemes(ts) == IF ts = <<>> THEN <<>> ELSE Lexeme(Head(ts)) \o Lexemes(Tail(ts))

IsNoBlank(c) == c \notin Blanks

(***************************************************************************)
(* C27: every token the scanner has emitted has a lexeme that matches its  *)
(* terminal.  A punctuation token's lexeme is its one character, an OTHER  *)
(* lexeme is a keyword or a number, and, for input without escapes, the    *)
(* lexemes of the tokens emitted so far (a STRING as its payload between   *)
(* two quotes) are, blanks apart, the input read so far: no character of   *)
(* one token is merged into the next, also when a number is immediately    *)
(* followed by a string literal.                                           *)
(***************************************************************************)
C27_LexemeMatchesTerminal ==
  /\ \A i \in 1..Len(toks) : LexemeShape(toks[i])
  /\ ~Escaped(text) =>
       IsPrefix(SelectSeq(Lexemes(toks), IsNoBlank), SelectSeq(text, IsNoBlank))

C27_NumberThenString ==
  /\ text = <<"[", "1", "\"", "a", "\"", "]">>
  /\ result = "OK"
  /\ TokenKinds(toks) = <<L_BRACKET, T_STRING, R_BRACKET, EOS, EOS>>
  /\ toks[2].text = <<"\"", "a">>

(***************************************************************************)
(* C28: the scanner never raises a logic error.  No call is left by the    *)
(* exception of scanner::punctuation, and whenever the last final state    *)
(* the scanner holds accepts PUNCT, the lexeme gathered begins with one of *)
(* the six punctuation characters.                                         *)
(***************************************************************************)
C28_PunctuationNeverThrows ==
  /\ result # "throw:Punctuation"
  /\ (InRange(p.scanner.last_final) /\ final[p.scanner.last_final + 1] = PUNCT)
       => /\ p.scanner.data # <<>>
          /\ ~punctuation_throws(p.scanner.data[1])

(***************************************************************************)
(* Calls made on the same parser after the run has ended: NextCall(chunk)  *)
(* is the next parse() with the stream pointed at chunk, Resumed(chunk)    *)
(* that call followed by closure signals up to the first result that is    *)
(* not PENDING.  Continuations are chunks a caller may go on feeding.      *)
(***************************************************************************)
BuildNow == IF build = "unknown" THEN "crash" ELSE build

NextCall(chunk) == parse(p, chunk, events, toks, BuildNow)

Resumed(chunk) == Drain(NextCall(chunk), MaxEmptyFeeds, BuildNow)

Continuations ==
  { <<"]">>, <<"}">>, <<"1", "]">>, <<"1", "}">>, <<",", "1", "]">>,
    <<"\"", "a", "\"", ":", "1", "}">> }

(***************************************************************************)
(* C29: ERROR is final.  Once parse() has returned ERROR, no further feed  *)
(* followed by closure signals makes a later call on the same parser       *)
(* return OK.                                                              *)
(***************************************************************************)
C29_ErrorIsFinal ==
  result = "ERROR" => \A c \in Continuations : Resumed(c).result # "OK"

(***************************************************************************)
(* C30: OK is stable.  Once parse() has returned OK, a further call with   *)
(* no new input returns OK again, emits no event and raises no logic       *)
(* error.                                                                  *)
(***************************************************************************)
C30_OkIsStable ==
  result = "OK" =>
    /\ NextCall(<<>>).result = "OK"
    /\ NextCall(<<>>).events = events
    /\ NextCall(<<>>).result \notin LogicErrors

(***************************************************************************)
(* What the call after OK does: the accepting reduce has left the stack    *)
(* empty, and the next reduce on EOS finds it too short.                   *)
(***************************************************************************)
C30_NextCallUnderflows ==
  result = "OK" =>
    /\ p.st = <<>>
    /\ NextCall(<<>>).result = "throw:Stack underflow"
    /\ NextCall(<<>>).events = events

(***************************************************************************)
(* C31: the top-level value must be an object or an array.  When the       *)
(* input begins with a primitive (a number, a keyword or a string), no     *)
(* event is ever emitted and the result is never OK; the result is PENDING *)
(* while the scanner has not yet recognised the token, and ERROR from the  *)
(* call in which it has, the primitive being the only token handed to the  *)
(* driver.                                                                 *)
(***************************************************************************)
BeginsWithPrimitive == pieces # <<>> /\ PieceKind[pieces[1]] \in {T_STRING, T_OTHER}

C31_TopLevelPrimitiveRejected ==
  BeginsWithPrimitive =>
    /\ events = <<>>
    /\ result \in {"PENDING", "ERROR"}
    /\ IF SelectSeq(toks, IsToken) = <<>> THEN result = "PENDING"
       ELSE /\ result = "ERROR"
            /\ Len(toks) = 1
            /\ toks[1].kind = PieceKind[pieces[1]]

(***************************************************************************)
(* The same, for the runs in which no table was read out of range.         *)
(***************************************************************************)
C31_RejectedInRange ==
  (BeginsWithPrimitive /\ build = "unknown") =>
    /\ events = <<>>
    /\ IF SelectSeq(toks, IsToken) = <<>> THEN result = "PENDING"
       ELSE /\ result = "ERROR"
            /\ Len(toks) = 1
            /\ toks[1].kind = PieceKind[pieces[1]]

C31_RejectedElsewhere ==
  (BeginsWithPrimitive /\ build # "crash") =>
    /\ events = <<>>
    /\ result \in {"PENDING", "ERROR"}

C31_Witness ==
  /\ BeginsWithPrimitive
  /\ result = "ERROR"
  /\ toks = <<[kind |-> T_STRING, text |-> <<"a">>]>>
  /\ events = <<>>

(***************************************************************************)
(* Well-nested event streams.  open is the sequence of the collections     *)
(* open so far, innermost last: "array", "object", or "member" for an      *)
(* object whose last key still waits for its value.  A value directly      *)
(* inside an object is accepted only after a key, and is the key's one     *)
(* value.  state is "begin" before the first event, "open" inside the      *)
(* document, "closed" after the outermost collection has ended, and "bad"  *)
(* once the events are no prefix of a well-nested stream.                  *)
(***************************************************************************)
Nest(open, state) == [open |-> open, state |-> state]

NestBad == Nest(<<>>, "bad")

NestTop(n) == IF n.open = <<>> THEN "none" ELSE n.open[Len(n.open)]

NestPop(n) ==
  IF Len(n.open) = 1 THEN Nest(<<>>, "closed")
  ELSE Nest(SubSeq(n.open, 1, Len(n.open) - 1), "open")

NestPush(n, kind) ==
  CASE n.state = "begin" -> Nest(<<kind>>, "open")
    [] NestTop(n) = "array" -> Nest(Append(n.open, kind), "open")
    [] NestTop(n) = "member" ->
         Nest(SubSeq(n.open, 1, Len(n.open) - 1) \o <<"object", kind>>, "open")
    [] OTHER -> NestBad

NestRetop(n, kind) == Nest(SubSeq(n.open, 1, Len(n.open) - 1) \o <<kind>>, "open")

NestStep(n, ev) ==
  CASE n.state \in {"bad", "closed"} -> NestBad
    [] ev.kind = "obj_start" -> NestPush(n, "object")
    [] ev.kind = "array_start" -> NestPush(n, "array")
    [] ev.kind = "key" -> IF NestTop(n) = "object" THEN NestRetop(n, "member") ELSE NestBad
    [] ev.kind = "obj_primitive" ->
         IF NestTop(n) = "member" THEN NestRetop(n, "object") ELSE NestBad
    [] ev.kind = "array_primitive" -> IF NestTop(n) = "array" THEN n ELSE NestBad
    [] ev.kind = "obj_end" -> IF NestTop(n) = "object" THEN NestPop(n) ELSE NestBad
    [] ev.kind = "array_end" -> IF NestTop(n) = "array" THEN NestPop(n) ELSE NestBad
    [] OTHER -> NestBad

RECURSIVE Nesting(_, _)
Nesting(n, evs) == IF evs = <<>> THEN n ELSE Nesting(NestStep(n, Head(evs)), Tail(evs))

NestingOf(evs) == Nesting(Nest(<<>>, "begin"), evs)

(***************************************************************************)
(* C32: the event stream is well nested.  At every point the events        *)
(* emitted are a prefix of a well-nested stream, and when parse() has      *)
(* returned OK they are a complete one: every start has its matching end,  *)
(* keys occur directly inside objects and each has exactly one value, and  *)
(* array primitives occur directly inside arrays.                          *)
(***************************************************************************)
C32_EventsWellNested ==
  /\ NestingOf(events).state # "bad"
  /\ result = "OK" => NestingOf(events).state = "closed"

C32_Witness ==
  /\ result = "OK"
  /\ Len(events) >= 8
  /\ \E i \in 1..Len(events) : events[i].kind = "key"
  /\ \E i \in 1..Len(events) : events[i].kind = "array_primitive"
  /\ NestingOf(events).state = "closed"

C32_WitnessPrefix ==
  /\ result = "ERROR"
  /\ Len(NestingOf(events).open) >= 2

(***************************************************************************)
(* The context stack of the tree builder against the nesting of the events *)
(* delivered so far.  StackKinds is the node type of every stack entry,    *)
(* bottom first.  Needs is what a callback dereferences: the cast it makes *)
(* of st->top() must not yield the null pointer, and an end callback must  *)
(* leave the preloaded root on the stack.  Accepting is the node type that *)
(* takes the next child.                                                   *)
(***************************************************************************)
StackKinds(t) == [i \in 1..Len(t.st) |-> t.heap[t.st[i]].type]

Needs(t, ev) ==
  /\ t.st # <<>>
  /\ CASE ev.kind \in {"obj_start", "array_start"} ->
            t.heap[top(t)].type \in {"root", "obj", "array"}
       [] ev.kind = "key" -> t.heap[top(t)].type = "objlist"
       [] ev.kind = "obj_primitive" -> t.heap[top(t)].type = "obj"
       [] ev.kind = "array_primitive" -> t.heap[top(t)].type = "array"
       [] OTHER -> Len(t.st) >= 2

Accepting(n) ==
  CASE NestTop(n) = "array" -> "array"
    [] NestTop(n) = "object" -> "objlist"
    [] NestTop(n) = "member" -> "obj"
    [] OTHER -> "root"

RECURSIVE Disciplined(_, _, _)
Disciplined(t, n, evs) ==
  \/ evs = <<>>
  \/ /\ Needs(t, Head(evs))
     /\ \E t2 \in {Callback(t, Head(evs))} : \E n2 \in {NestStep(n, Head(evs))} :
          /\ ~t2.fault
          /\ t2.st # <<>> /\ t2.st[1] = 1
          /\ t2.heap[top(t2)].type = Accepting(n2)
          /\ Disciplined(t2, n2, Tail(evs))

(***************************************************************************)
(* C33: tree-builder stack discipline.  For the events of every run, of    *)
(* rejected inputs too, each callback finds on top of the context stack    *)
(* the node kind it needs (a start: the root, an object entry or an array; *)
(* key: an object; obj_primitive: an object entry; array_primitive: an     *)
(* array), no end callback pops the preloaded root, and after each         *)
(* callback the top of the stack is the composite that accepts the next    *)
(* child.                                                                  *)
(***************************************************************************)
C33_StackDiscipline == Disciplined(tree_init, Nest(<<>>, "begin"), events)

C33_Witness ==
  /\ result = "ERROR"
  /\ \E i \in 1..Len(events) : events[i].kind = "obj_primitive"
  /\ StackKinds(Build(events)) = <<"root", "objlist">>

C33_WitnessDeep ==
  /\ result = "ERROR"
  /\ StackKinds(Build(events)) = <<"root", "array", "array">>

C33_WitnessComplete ==
  /\ result = "OK"
  /\ Len(events) >= 8
  /\ StackKinds(Build(events)) = <<"root">>

(***************************************************************************)
(* The shape of the parser's stack.  Entries come in pairs, a symbol id    *)
(* (a column of pt: nonterminals 0..8, terminals 9..17) below the state    *)
(* that pt gives for it in the state of the pair beneath, or in state 0    *)
(* for the lowest pair.                                                    *)
(***************************************************************************)
StateBelow(stk, i) == IF i = 1 THEN 0 ELSE stk[2 * i - 2]

StackShape(stk, crt) ==
  /\ Len(stk) % 2 = 0
  /\ stk # <<>> => stk[Len(stk)] = crt
  /\ \A i \in 1..(Len(stk) \div 2) :
       /\ stk[2 * i - 1] \in 0..17
       /\ stk[2 * i] \in 0..(Len(pt_what) - 1)
       /\ stk[2 * i] = pt_where[StateBelow(stk, i) + 1][stk[2 * i - 1] + 1]
       /\ stk[2 * i - 1] >= L_BRACE => pt_what[StateBelow(stk, i) + 1][stk[2 * i - 1] + 1] = SHIFT

(***************************************************************************)
(* The moves of a shift-reduce parser on one lookahead: a SHIFT pushes the *)
(* terminal and the new state and consumes the lookahead; a REDUCE of      *)
(* length k to the nonterminal n pops 2k entries, pushes n and its goto    *)
(* state, and tries the same lookahead again.  LRRun makes the moves for   *)
(* the terminals of one call: an EOS is acted on only when it is the first *)
(* terminal of the call, and the call ends at the first terminal that is   *)
(* not shifted.                                                            *)
(***************************************************************************)
LRResult(stk, out) == [st |-> stk, out |-> out]

RECURSIVE LRMove(_, _)
LRMove(stk, term) ==
  LET s == IF stk = <<>> THEN 0 ELSE stk[Len(stk)]
      what == pt_what[s + 1][term + 1]
      k == pt_where[s + 1][term + 1]
      popped == SubSeq(stk, 1, Len(stk) - 2 * k)
  IN  IF what = -1 THEN LRResult(stk, "ERROR")
      ELSE IF what = SHIFT THEN LRResult(stk \o <<term, k>>, "SHIFT")
      ELSE IF Len(stk) < 2 * k THEN LRResult(stk, "throw")
      ELSE IF popped = <<>>
        THEN LRResult(popped, IF what = 0 /\ term = EOS THEN "OK" ELSE "throw")
      ELSE IF pt_where[popped[Len(popped)] + 1][what + 1] = -1 THEN LRResult(popped, "throw")
      ELSE LRMove(popped \o <<what, pt_where[popped[Len(popped)] + 1][what + 1]>>, term)

RECURSIVE LRRun(_, _, _)
LRRun(stk, terms, first) ==
  IF terms = <<>> THEN LRResult(stk, "PENDING")
  ELSE IF Head(terms) = T_ERROR THEN LRResult(stk, "ERROR")
  ELSE IF Head(terms) = EOS /\ ~first THEN LRResult(stk, "PENDING")
  ELSE LET m == LRMove(stk, Head(terms))
       IN  IF m.out = "SHIFT" THEN LRRun(m.st, Tail(terms), FALSE) ELSE m

Terminals(ts) == [i \in 1..Len(ts) |-> ts[i].kind]

NewTerminals == Terminals(SubSeq(toks', Len(toks) + 1, Len(toks')))

(***************************************************************************)
(* C34: parser stack shape.  At every return of parse() before acceptance  *)
(* the stack has even size, alternates symbol ids and state ids with the   *)
(* symbol below its state, and its top entry is the current state whenever *)
(* it is not empty; and the stack at the return is the stack at the call   *)
(* after the moves for the terminals scanned in between, where a SHIFT     *)
(* pushes exactly two entries and a REDUCE of length k pops exactly 2k     *)
(* entries and pushes two without consuming the lookahead.                 *)
(***************************************************************************)
C34_ParserStackShape ==
  [][/\ result' \in {"PENDING", "ERROR"} => StackShape(p'.st, p'.crt)
     /\ result' \in {"PENDING", "ERROR", "OK"} =>
          /\ LRRun(p.st, NewTerminals, TRUE).out = result'
          /\ LRRun(p.st, NewTerminals, TRUE).st = p'.st]_vars

C34_Witness ==
  /\ result = "PENDING"
  /\ Len(p.st) >= 6
  /\ \E i \in 1..(Len(p.st) \div 2) : p.st[2 * i - 1] < L_BRACE
  /\ StackShape(p.st, p.crt)

C34_WitnessAccepted == result = "OK" /\ p.st = <<>> /\ p.crt # 0

(***************************************************************************)
(* The characters on their way through the scanner, blanks left out:       *)
(* Unread is the pushback still to be read followed by the stream, Held    *)
(* is the lexeme buffer followed by Unread.  Conserved relates them across *)
(* one call g of get(): a PENDING call keeps all of Held; a call that      *)
(* returns a token or ERROR leaves as Unread a suffix of Held, with an     *)
(* empty lexeme buffer, and the token's text is made of the characters     *)
(* Taken from the front (a STRING's by postprocess).  ConservedRun checks  *)
(* up to n successive calls on the same stream.                            *)
(***************************************************************************)
MaxGets == 5

NonBlank(s) == SelectSeq(s, IsNoBlank)

IsSuffix(a, b) == Len(a) <= Len(b) /\ SubSeq(b, Len(b) - Len(a) + 1, Len(b)) = a

Unread(sc, stream) == NonBlank(sc.buf \o stream)

Held(sc, stream) == NonBlank(sc.data) \o Unread(sc, stream)

Taken(sc, stream, g) ==
  SubSeq(Held(sc, stream), 1, Len(Held(sc, stream)) - Len(Unread(g.sc, g.str)))

Conserved(sc, stream, g) ==
  CASE g.exc # "none" -> TRUE
    [] g.tok = T_PENDING -> NonBlank(g.sc.data) \o Unread(g.sc, g.str) = Held(sc, stream)
    [] g.tok = EOS -> Held(sc, stream) = <<>> /\ Unread(g.sc, g.str) = <<>>
    [] g.tok = T_ERROR -> IsSuffix(Unread(g.sc, g.str), Held(sc, stream)) /\ g.sc.data = <<>>
    [] OTHER ->
         /\ IsSuffix(Unread(g.sc, g.str), Held(sc, stream))
         /\ g.sc.data = <<>>
         /\ NonBlank(g.text)
              = NonBlank(IF g.tok = T_STRING
                           THEN postprocess(Taken(sc, stream, g), Len(Taken(sc, stream, g)) - 1)
                           ELSE Taken(sc, stream, g))

GoesOn(g) == g.exc = "none" /\ g.tok \notin {T_PENDING, EOS}

RECURSIVE ConservedRun(_, _, _, _)
ConservedRun(sc, stream, bld, n) ==
  \/ n = 0
  \/ \E g \in {get(sc, stream, bld)} :
       /\ Conserved(sc, stream, g)
       /\ GoesOn(g) => ConservedRun(g.sc, g.str, bld, n - 1)

(***************************************************************************)
(* A call that flushes a token out of the pushback alone: it has read one  *)
(* character past the token, which goes back in front of the pushback not  *)
(* yet read.                                                               *)
(***************************************************************************)
RECURSIVE PushbackRun(_, _, _, _)
PushbackRun(sc, stream, bld, n) ==
  /\ n > 0
  /\ \E g \in {get(sc, stream, bld)} :
       \/ /\ g.exc = "none"
          /\ g.tok \notin {T_PENDING, EOS, T_ERROR}
          /\ sc.data = <<>>
          /\ g.str = stream
          /\ Len(g.sc.buf) >= 2
          /\ g.text \o g.sc.buf = sc.buf
       \/ GoesOn(g) /\ PushbackRun(g.sc, g.str, bld, n - 1)

NextChunks == {<<>>} \cup {Pieces[i] : i \in 1..Len(Pieces)}

(***************************************************************************)
(* C35: pushback preserves the input.  From every state of the scanner a   *)
(* run reaches, and for every next chunk or closure, across the following  *)
(* get() calls no non-blank character is lost, duplicated or reordered:    *)
(* what a flushed token leaves unread is, in the original order, the       *)
(* characters read past its last accepting state, then the pushback not    *)
(* yet re-read, then the stream.                                           *)
(***************************************************************************)
C35_PushbackPreservesInput ==
  \A chunk \in NextChunks : ConservedRun(p.scanner, chunk, BuildNow, MaxGets)

C35_Witness ==
  /\ result = "PENDING"
  /\ \E chunk \in NextChunks : PushbackRun(p.scanner, chunk, BuildNow, MaxGets)

(***************************************************************************)
(* Longest-match tokenisation of the text txt by the DFA st/final, as a    *)
(* reference.  LongestFrom walks from position i in state crt and context  *)
(* ctx with the lexeme lex gathered so far; best is the last position at   *)
(* which the state was accepting (0 if none), with its lexeme and          *)
(* terminal.  The walk ends where no arc leaves the state (dies) or where  *)
(* the text ends.                                                          *)
(***************************************************************************)
Walked(dies, best, lexeme, terminal) ==
  [dies |-> dies, best |-> best, lexeme |-> lexeme, terminal |-> terminal]

RECURSIVE LongestFrom(_, _, _, _, _, _)
LongestFrom(txt, i, crt, ctx, lex, w) ==
  IF i > Len(txt) THEN w
  ELSE LET t == translate(txt[i], ctx)
           data == IF t.type # BLANK THEN Append(lex, txt[i]) ELSE lex
           nxt == st[crt + 1][t.type + 1]
       IN  IF ~InRange(nxt) THEN [w EXCEPT !.dies = TRUE]
           ELSE LongestFrom(txt, i + 1, nxt, t.context, data,
                            IF final[nxt + 1] # 0 THEN Walked(FALSE, i, data, final[nxt + 1]) ELSE w)

Longest(txt, from) ==
  LongestFrom(txt, from, 0, "DFLT_CONTEXT", <<>>, Walked(FALSE, 0, <<>>, 0))

(***************************************************************************)
(* The tokens committed on txt by position `from` on: a token is committed *)
(* when the walk dies after an accepting state, or, once the closure       *)
(* signal has come (closed), when the text ends after one; the next token  *)
(* starts behind the lexeme committed.                                     *)
(***************************************************************************)
Committed(w) ==
  [kind |-> IF w.terminal = PUNCT THEN punctuation(w.lexeme[1]) ELSE w.terminal,
   text |-> IF w.terminal = T_STRING THEN postprocess(w.lexeme, Len(w.lexeme) - 1)
            ELSE w.lexeme]

RECURSIVE Greedy(_, _, _)
Greedy(txt, from, closed) ==
  LET w == Longest(txt, from)
  IN  IF w.best = 0 \/ (~w.dies /\ ~closed) THEN <<>>
      ELSE IF w.terminal = PUNCT /\ punctuation_throws(w.lexeme[1]) THEN <<>>
      ELSE <<Committed(w)>> \o Greedy(txt, w.best + 1, closed)

IsCommitted(t) == t.kind \notin {EOS, T_ERROR}

(***************************************************************************)
(* C36: greedy scanning.  The tokens emitted so far are the first tokens   *)
(* of the longest-match tokenisation of the input fed so far, each the     *)
(* longest prefix of the remaining input that reaches an accepting state;  *)
(* before the closure signal only tokens that a following character could  *)
(* not extend are among them, so a token whose accepting state is reached  *)
(* at the end of the available input is withheld and the call returns      *)
(* PENDING.                                                                *)
(***************************************************************************)
C36_GreedyScanning ==
  /\ IsPrefix(SelectSeq(toks, IsCommitted), Greedy(text, 1, nempty > 0))
  /\ (InRange(p.scanner.crt) /\ final[p.scanner.crt + 1] # 0) => result = "PENDING"

C36_Witness ==
  /\ result = "PENDING"
  /\ nempty = 0
  /\ InRange(p.scanner.crt) /\ final[p.scanner.crt + 1] = T_OTHER
  /\ Len(SelectSeq(toks, IsCommitted)) >= 3
  /\ SelectSeq(toks, IsCommitted) = Greedy(text, 1, FALSE)
  /\ Len(Greedy(text, 1, TRUE)) = Len(SelectSeq(toks, IsCommitted)) + 1
====
